---- MODULE Spec2Model ----
(***************************************************************************)
(* Model of the Inficon MPH residual-gas-analyzer asyn port driver          *)
(* (drvInficon): the exchange routine inficonReadWrite, the JSON endpoint   *)
(* decoders, the write handlers with the acquisition state machine, and the *)
(* poller thread with its port lock and its two refresh tiers.              *)
(***************************************************************************)
EXTENDS Integers, Sequences, FiniteSets, TLC

(***************************************************************************)
(* Program constants                                                        *)
(***************************************************************************)
MAX_CHANNELS == 5
FiveSec == 5
TenSec == 10
HTTP_OK == 200
MaxFilaments == 3

asynSuccess == "asynSuccess"
asynTimeout == "asynTimeout"
asynError == "asynError"
asynDisconnected == "asynDisconnected"

IDLE == "IDLE"
MONITORING == "MONITORING"
LEAKCEHCK == "LEAKCEHCK"

(***************************************************************************)
(* Bounds of the model                                                      *)
(***************************************************************************)
\* largest scan number the modelled instrument reports
MaxScan == 1
\* the length of the arrays scanValues and amuValues: 16384 in the source, small
\* here so that the documents of the model can exceed it
MAX_SCAN_SIZE == 2

(***************************************************************************)
(* JSON documents.  A document is [ok, f]: ok says whether json::parse      *)
(* accepts the text, f maps the keys present under "data" to their values.  *)
(* A value is [t, n, s]: its JSON type, and its number or its string.       *)
(* marks are the landmark substrings found in the raw text, fil the entries  *)
(* of the "filaments" array and vals the elements of the "values" array.     *)
(***************************************************************************)
Num(n) == [t |-> "number", n |-> n, s |-> ""]
Str(s) == [t |-> "string", n |-> 0, s |-> s]
Arr(n) == [t |-> "array", n |-> n, s |-> ""]
Null == [t |-> "null", n |-> 0, s |-> ""]
\* a JSON number with a fraction, the exact quotient n/d
Real(n, d) == [t |-> "number", n |-> n, s |-> "", d |-> d]

\* j["data"][key] of a non-const json: a key that is absent reads as null
Get(doc, key) == IF key \in DOMAIN doc.f THEN doc.f[key] ELSE Null

\* uintValue/3600.0: seconds kept as hours, the exact quotient num/den
Hrs(sec) == [num |-> sec, den |-> 3600]

\* the value an assignment stores: sc names what the code does to the JSON
\* value on its way into the field
Conv(v, sc) ==
    CASE sc = "str" -> v.s
      [] sc = "div100" -> v.n \div 100
      [] sc = "hours" -> Hrs(v.n)
      [] sc = "real" -> [num |-> v.n, den |-> IF "d" \in DOMAIN v THEN v.d ELSE 1]
      [] OTHER -> v.n

\* the response buffer data_ right after callocMustSucceed: the empty string
EmptyBuf == [ok |-> FALSE, f |-> [none |-> Null], marks |-> {}, fil |-> <<>>, vals |-> <<>>]
\* a payload that is no JSON text (cut short, or not JSON at all)
Garbled == [ok |-> FALSE, f |-> [cut |-> Null], marks |-> {}, fil |-> <<>>, vals |-> <<>>]

A(fld, key, t, sc) == [fld |-> fld, key |-> key, t |-> t, sc |-> sc]
Doc(f) == [ok |-> TRUE, f |-> f, marks |-> {}, fil |-> <<>>, vals |-> <<>>]

(***************************************************************************)
(* Field-by-field decoding.  as is the decoder's sequence of assignments    *)
(* [fld, key, t, sc], executed in order inside one try block: each value is *)
(* converted and stored into the target struct at once, and the first key   *)
(* that is absent or of the wrong type throws, which ends the decode with   *)
(* asynError and leaves the earlier stores in place.                        *)
(***************************************************************************)
FirstBad(as, doc) ==
    IF \E i \in 1..Len(as) : Get(doc, as[i].key).t # as[i].t
    THEN CHOOSE i \in 1..Len(as) :
            /\ Get(doc, as[i].key).t # as[i].t
            /\ \A k \in 1..(i - 1) : Get(doc, as[k].key).t = as[k].t
    ELSE Len(as) + 1

\* the stores of the first n assignments of as applied to old
Stores(as, n, doc, old) ==
    [fld \in DOMAIN old |->
        IF \E i \in 1..n : as[i].fld = fld
        THEN LET i == CHOOSE k \in 1..n : as[k].fld = fld
             IN Conv(Get(doc, as[i].key), as[i].sc)
        ELSE old[fld]]

DecodeFields(as, doc, old) ==
    IF ~doc.ok
    THEN [status |-> asynError, val |-> old]
    ELSE LET b == FirstBad(as, doc)
         IN [status |-> IF b <= Len(as) THEN asynError ELSE asynSuccess,
             val |-> Stores(as, b - 1, doc, old)]

(***************************************************************************)
(* The assignments of each decoder, in source order                         *)
(***************************************************************************)
diagAs ==
    << A("boxTemp", "internalBoxTemperature", "number", "id"),
       A("anodePot", "anodePotential", "number", "id"),
       A("focusPot", "focusPotential", "number", "id"),
       A("filPot", "filamentPotential", "number", "id"),
       A("emPot", "electronMultiplierPotential", "number", "id"),
       A("emiCurrent", "emissionCurrent", "number", "id"),
       A("filCurrent", "filamentCurrent", "number", "id"),
       A("electEng", "electronEnergy", "number", "id") >>

\* a decoder that stores emGainMass as it is reported
sensDetectAs_Unscaled ==
    << A("emVMax", "emVoltageMax", "number", "id"),
       A("emVMin", "emVoltageMin", "number", "id"),
       A("emV", "emVoltage", "number", "id"),
       A("emGain", "emGain", "number", "real"),
       A("emGainMass", "emGainMass", "number", "id") >>
\* emGain is a double and is kept as an exact quotient
sensDetectAs ==
    << A("emVMax", "emVoltageMax", "number", "id"),
       A("emVMin", "emVoltageMin", "number", "id"),
       A("emV", "emVoltage", "number", "id"),
       A("emGain", "emGain", "number", "real"),
       A("emGainMass", "emGainMass", "number", "div100") >>

ionSourceAs == << A("filSel", "filamentSelected", "number", "id") >>

chAs ==
    << A("chMode", "channelMode", "string", "str"),
       A("chStartMass", "startMass", "number", "id"),
       A("chStopMass", "stopMass", "number", "id"),
       A("chDwell", "dwell", "number", "id"),
       A("chPpamu", "ppamu", "number", "id") >>

commAs ==
    << A("ip", "ipAddress", "string", "str"),
       A("mac", "macAddress", "string", "str") >>

sensInfoAs ==
    << A("sensName", "name", "string", "str"),
       A("sensDesc", "description", "string", "str"),
       A("sensSN", "serialNumber", "number", "id") >>

devStatusAs ==
    << A("systStatus", "systemStatus", "number", "id"),
       A("hwError", "hardwareErrors", "number", "id"),
       A("hwWarn", "hardwareWarnings", "number", "id"),
       A("pwrOnTime", "powerSupplyPowerOnTime", "number", "hours"),
       A("emiOnTime", "emissionStretch", "number", "hours"),
       A("emOnTime", "emStretch", "number", "hours"),
       A("emCmlOnTime", "emOnTime", "number", "hours"),
       A("emPressTrip", "emPressTrip", "number", "id") >>

filamentAs ==
    << A("id", "@id", "number", "id"),
       A("emiCmlOnTime", "emisOnTime", "number", "hours"),
       A("emiPressTrip", "emisPressTrip", "number", "id") >>

sensFiltAs ==
    << A("massMax", "massMax", "number", "id"),
       A("massMin", "massMin", "number", "id"),
       A("dwellMax", "dwellMax", "number", "id"),
       A("dwellMin", "dwellMin", "number", "id") >>

scanInfoAs ==
    << A("firstScan", "firstScan", "number", "id"),
       A("lastScan", "lastScan", "number", "id"),
       A("currScan", "currentScan", "number", "id"),
       A("ppScan", "pointsPerScan", "number", "id"),
       A("scanStatus", "scanning", "boolean", "id") >>

pressureAs == << A("totalPressure", "data", "number", "id") >>

(***************************************************************************)
(* The decoders                                                             *)
(***************************************************************************)
parseCommParam(doc, commParam) == DecodeFields(commAs, doc, commParam)
parseSensInfo(doc, sensInfo) == DecodeFields(sensInfoAs, doc, sensInfo)
parseDiagData(doc, diagData) == DecodeFields(diagAs, doc, diagData)
parseScanInfo(doc, scanInfo) == DecodeFields(scanInfoAs, doc, scanInfo)
parseSensDetect(doc, sensDetect) == DecodeFields(sensDetectAs, doc, sensDetect)
parseSensFilt(doc, sensFilt) == DecodeFields(sensFiltAs, doc, sensFilt)
parseChScanSetup(doc, chScanSetup) == DecodeFields(chAs, doc, chScanSetup)
parsePressure(doc, value) == DecodeFields(pressureAs, doc, value)

\* the struct fields a decoder fills
Fields(as) == { as[i].fld : i \in 1..Len(as) }

\* the loop over j["data"]["filaments"]: entry number i (from 0) is refused
\* once i > 2, after the entries before it have been stored
\* a loop that takes every entry of the document
PastLast_Never(i) == FALSE
\* if (i > 2) return asynError;
PastLast(i) == i > MaxFilaments - 1
\* devStatus->filament[i]: an index behind the array is memory behind it
FilamentAt(filament, i) ==
    IF i \in DOMAIN filament THEN filament[i] ELSE [fld \in Fields(filamentAs) |-> 0]
PutFilament(filament, i, v) ==
    [k \in DOMAIN filament \cup {i} |-> IF k = i THEN v ELSE filament[k]]

RECURSIVE FilamentLoop(_, _, _)
FilamentLoop(fil, i, filament) ==
    IF i >= Len(fil) THEN [status |-> asynSuccess, val |-> filament]
    ELSE IF PastLast(i) THEN [status |-> asynError, val |-> filament]
    ELSE LET r == DecodeFields(filamentAs, Doc(fil[i + 1]), FilamentAt(filament, i))
             stored == PutFilament(filament, i, r.val)
         IN IF r.status # asynSuccess
            THEN [status |-> asynError, val |-> stored]
            ELSE FilamentLoop(fil, i + 1, stored)

\* the number of filament entries with which the spliced text still fits into
\* jsonDataSubstring[1500]: small here so that the documents of the model can
\* exceed it
FilamentsThatFit == 4
\* the splice is made, of a text too long for jsonDataSubstring
SpliceOverrun(doc) ==
    /\ {"peakfind", "filaments"} \subseteq doc.marks
    /\ Len(doc.fil) > FilamentsThatFit

\* both landmarks of the splice must be in the text; the spliced text is then
\* parsed and decoded, scalars first, filaments after
parseDevStatus(doc, devStatus) ==
    IF ~({"peakfind", "filaments"} \subseteq doc.marks)
    THEN [status |-> asynError, val |-> devStatus]
    ELSE LET r == DecodeFields(devStatusAs, doc, devStatus)
         IN IF r.status # asynSuccess THEN r
            ELSE LET l == FilamentLoop(doc.fil, 0, r.val.filament)
                 IN [status |-> l.status,
                     val |-> [r.val EXCEPT !.filament = l.val]]

\* an enumerated string: an exact match against the two literals, stored as 0/1
EnumStore(doc, key, fld, lit0, lit1, old) ==
    LET v == Get(doc, key)
    IN IF v.t # "string" THEN [status |-> asynError, val |-> old]
       ELSE IF v.s = lit0 THEN [status |-> asynSuccess, val |-> [old EXCEPT ![fld] = 0]]
       ELSE IF v.s = lit1 THEN [status |-> asynSuccess, val |-> [old EXCEPT ![fld] = 1]]
       ELSE [status |-> asynError, val |-> old]

parseSensIonSource(doc, sensIonSource) ==
    IF ~({"ionSource", "calIndex"} \subseteq doc.marks)
    THEN [status |-> asynError, val |-> sensIonSource]
    ELSE LET r == DecodeFields(ionSourceAs, doc, sensIonSource)
         IN IF r.status # asynSuccess THEN r
            ELSE LET e == EnumStore(doc, "emissionLevel", "emiLevel", "Lo", "Hi", r.val)
                 IN IF e.status # asynSuccess THEN e
                    ELSE EnumStore(doc, "optimizationType", "optType",
                                   "Linearity", "Sensitivity", e.val)

\* char stemp[32];
STEMP_SIZE == 32
LongName == "Sensitivity, optimised for low partial pressure"
\* a string and its terminating byte do not fit into stemp
Overlong(v) == v.t = "string" /\ Len(v.s) + 1 > STEMP_SIZE
\* strcpy(stemp, jstring.c_str()) is reached with a string that does not fit
\* and writes behind stemp
StempOverrun(doc) ==
    /\ doc.ok
    /\ {"ionSource", "calIndex"} \subseteq doc.marks
    /\ FirstBad(ionSourceAs, doc) > Len(ionSourceAs)
    /\ \/ Overlong(Get(doc, "emissionLevel"))
       \/ /\ Get(doc, "emissionLevel").t = "string"
          /\ Get(doc, "emissionLevel").s \in {"Lo", "Hi"}
          /\ Overlong(Get(doc, "optimizationType"))

\* a decoder content with the first of several values
OneValue_OrMore(actualScanSize) == actualScanSize >= 1
\* if (actualScanSize == 1)
OneValue(actualScanSize) == actualScanSize = 1

\* the leak-check value: the single element of "values"
parseLeakChk(doc, value) ==
    IF ~doc.ok \/ Get(doc, "values").t # "array" \/ ~OneValue(Len(doc.vals))
       \/ doc.vals[1].t # "number"
    THEN [status |-> asynError, val |-> value]
    ELSE [status |-> asynSuccess, val |-> [value EXCEPT !.leakChkValue = doc.vals[1].n]]

(***************************************************************************)
(* Arrays of the scan buffer.  An array is [fill, el]: el holds its first    *)
(* Len(el) elements, every element after them holds fill.                    *)
(***************************************************************************)
Rat(num, den) == [num |-> num, den |-> den]
ZeroArr(z) == [fill |-> z, el |-> << >>]
\* memcpy of the sequence w over the start of the array a
CopyIn(a, w) ==
    [a EXCEPT !.el = w \o SubSeq(a.el, Len(w) + 1, Len(a.el))]
NumsOf(vals) == [i \in 1..Len(vals) |-> vals[i].n]

\* j["data"]["values"].size(): elements of an array, 0 for null, 1 for a scalar
SizeOf(doc) ==
    LET v == Get(doc, "values")
    IN IF v.t = "array" THEN Len(doc.vals) ELSE IF v.t = "null" THEN 0 ELSE 1

\* an axis that starts one step late
Axis_FromOne(startMass, ppAMU, scanSize) ==
    [i \in 1..scanSize |-> [num |-> startMass * ppAMU + i, den |-> ppAMU]]
\* the mass axis: amuValues[i] = startMass + i*(1/ppAMU), i in 0..scanSize-1,
\* kept as the exact quotient (startMass*ppAMU + i)/ppAMU
Axis(startMass, ppAMU, scanSize) ==
    [i \in 1..scanSize |-> Rat(startMass * ppAMU + (i - 1), ppAMU)]

\* scanValues and amuValues lie one after the other at the end of the struct.
\* The field past names the arrays that were written beyond their last
\* element: what goes past scanValues lands at the start of amuValues, what
\* goes past amuValues lands in the memory behind the struct.
Upto(q, n) == SubSeq(q, 1, IF Len(q) < n THEN Len(q) ELSE n)
\* memcpy(scanData->scanValues, &values[0], actualScanSize * sizeof(float))
StoreSamples(scanData, v) ==
    LET spill == SubSeq(v, MAX_SCAN_SIZE + 1, Len(v))
    IN [scanData EXCEPT
          !.scanValues = CopyIn(@, Upto(v, MAX_SCAN_SIZE)),
          !.amuValues = CopyIn(@, [i \in 1..Len(Upto(spill, MAX_SCAN_SIZE)) |-> Rat(spill[i], 1)]),
          !.past = @ \cup (IF Len(v) > MAX_SCAN_SIZE THEN {"scanValues"} ELSE {})
                     \cup (IF Len(spill) > MAX_SCAN_SIZE THEN {"amuValues"} ELSE {})]
\* the loop scanData->amuValues[i] = ... over the axis ax
StoreAxis(scanData, ax) ==
    [scanData EXCEPT
        !.amuValues = CopyIn(@, Upto(ax, MAX_SCAN_SIZE)),
        !.past = @ \cup (IF Len(ax) > MAX_SCAN_SIZE THEN {"amuValues"} ELSE {})]

\* an axis computed whatever the parameters are
AxisValid_Any(ppAMU, scanSize, startMass, stopMass) == TRUE
\* the three tests before the axis is computed
AxisValid(ppAMU, scanSize, startMass, stopMass) ==
    ~(ppAMU <= 0 \/ scanSize <= 0 \/ startMass > stopMass)

\* par is what the parameter library holds for channel 3 (start mass, stop
\* mass, ppamu); while a value is undefined the local keeps its initial 0
parseScan(doc, scanData, par) ==
    LET startMass == IF par.def THEN par.chStartMass ELSE 0
        stopMass == IF par.def THEN par.chStopMass ELSE 0
        ppAMU == IF par.def THEN par.chPpamu ELSE 0
        s1 == [scanData EXCEPT !.scanSize = Get(doc, "scansize").n,
                               !.actualScanSize = SizeOf(doc)]
        s2 == [s1 EXCEPT !.scanNumber = Get(doc, "scannum").n]
        s3 == StoreSamples(s2, NumsOf(doc.vals))
    IN IF ~doc.ok \/ Get(doc, "scansize").t # "number"
       THEN [status |-> asynError, val |-> scanData]
       ELSE IF Get(doc, "scannum").t # "number"
       THEN [status |-> asynError, val |-> s1]
       ELSE IF Get(doc, "values").t # "array"
               \/ \E i \in 1..Len(doc.vals) : doc.vals[i].t # "number"
       THEN [status |-> asynError, val |-> s2]
       ELSE IF ~AxisValid(ppAMU, s3.scanSize, startMass, stopMass)
       THEN [status |-> asynError, val |-> s3]
       ELSE [status |-> asynSuccess,
             val |-> StoreAxis(s3, Axis(startMass, ppAMU, s3.scanSize))]

(***************************************************************************)
(* inficonReadWrite.  rsp is what writeRead brought back: the transport      *)
(* status, whether any byte was read, whether the text holds the marker      *)
(* "HTTP/1.1", the code after it, whether it holds '{' and '}', and the      *)
(* document between the first '{' and the last '}'.  The result is the       *)
(* returned status and the content of the response buffer afterwards.        *)
(***************************************************************************)
\* a test that lets only a transport success through
Received_OnlySuccess(status, nread) == status = asynSuccess /\ nread > 0
\* the three branches that go on to the status line: success, timeout or
\* error from writeRead, each with nread > 0
Received(status, nread) == status \in {asynSuccess, asynTimeout, asynError} /\ nread > 0

\* what memcpy leaves in the response buffer when the last '}' of the
\* response lies before its first '{': jsonStop - jsonStart + 1 is then zero
\* or negative and becomes the size_t length of the copy
Wild == [ok |-> FALSE, f |-> [wild |-> Null], marks |-> {}, fil |-> <<>>, vals |-> <<>>]

\* rsp is what writeRead gave: its status, the bytes read, whether they hold
\* "HTTP/1.1", the code after it, whether they hold a '{' and a '}', whether
\* the last '}' lies before the first '{', and the text between the braces
inficonReadWrite(rsp, response) ==
    IF ~Received(rsp.status, rsp.nread)
    THEN [status |-> asynError, data |-> response]
    ELSE IF ~rsp.marker
    THEN [status |-> asynError, data |-> response]
    ELSE IF rsp.code = HTTP_OK
    THEN IF ~rsp.lbrace \/ ~rsp.rbrace
         THEN [status |-> asynError, data |-> response]
         ELSE IF rsp.swapped
         THEN [status |-> asynSuccess, data |-> Wild]
         ELSE [status |-> asynSuccess, data |-> rsp.doc]
    ELSE [status |-> asynError, data |-> EmptyBuf]

(***************************************************************************)
(* The instrument.  Every exchange is answered from a small set of           *)
(* responses; the documents behind them are listed per request.              *)
(***************************************************************************)
Ok(doc) ==
    [status |-> asynSuccess, nread |-> 1, marker |-> TRUE, code |-> HTTP_OK,
     lbrace |-> TRUE, rbrace |-> TRUE, swapped |-> FALSE, doc |-> doc]

\* the ways an exchange goes wrong: nothing read (connect or write failure,
\* timeout), bytes read without the status marker, a status other than 200, a
\* brace missing, and a timeout after part of the payload
Faults(doc) ==
    { [Ok(doc) EXCEPT !.status = st, !.nread = 0] :
          st \in {asynSuccess, asynTimeout, asynError, asynDisconnected} }
    \cup { [Ok(doc) EXCEPT !.status = asynDisconnected],
           [Ok(doc) EXCEPT !.marker = FALSE],
           [Ok(doc) EXCEPT !.code = 404],
           [Ok(doc) EXCEPT !.lbrace = FALSE],
           [Ok(doc) EXCEPT !.rbrace = FALSE],
           [Ok(doc) EXCEPT !.status = asynTimeout],
           [Ok(doc) EXCEPT !.status = asynError],
           [Ok(Garbled) EXCEPT !.status = asynTimeout] }

Keys(as) == { as[i].key : i \in 1..Len(as) }
Typed(t, v, name) ==
    CASE t = "string" -> Str(name)
      [] t = "boolean" -> [t |-> "boolean", n |-> v, s |-> ""]
      [] OTHER -> Num(v)
\* the well-formed document of a flat endpoint, every number v, every string name
DocOf(as, v, name) ==
    Doc([k \in Keys(as) |->
            LET i == CHOOSE j \in 1..Len(as) : as[j].key = k
            IN Typed(as[i].t, v, name)])
\* the same document with the key of assignment b absent
Without(doc, as, b) ==
    [doc EXCEPT !.f = [k \in DOMAIN doc.f |-> IF k = as[b].key THEN Null ELSE doc.f[k]]]
Damaged(as, doc) == { Without(doc, as, b) : b \in 1..Len(as) }

SensDetectDoc(vMax, vMin, v, gain, gainMass) ==
    Doc([emVoltageMax |-> Num(vMax), emVoltageMin |-> Num(vMin), emVoltage |-> Num(v),
         emGain |-> gain, emGainMass |-> Num(gainMass)])
ScanInfoDoc(last, scanning) ==
    [DocOf(scanInfoAs, 1, "") EXCEPT !.f.lastScan = Num(last),
                                     !.f.scanning = [t |-> "boolean", n |-> scanning, s |-> ""]]
FilamentDoc(id) == [k \in Keys(filamentAs) |-> Num(id)]
DevStatusDoc(nfil) ==
    [DocOf(devStatusAs, 1, "") EXCEPT !.marks = {"peakfind", "filaments"},
                                      !.fil = [i \in 1..nfil |-> FilamentDoc(i)]]
IonSourceDoc(level, opt) ==
    [Doc([filamentSelected |-> Num(1), emissionLevel |-> Str(level),
          optimizationType |-> Str(opt)]) EXCEPT !.marks = {"ionSource", "calIndex"}]
\* a scan of n samples, all of value v, numbered num
ScanDoc(n, v, num) ==
    [Doc([scansize |-> Num(n), values |-> Arr(n), scannum |-> Num(num)])
        EXCEPT !.vals = [i \in 1..n |-> Num(v)]]
\* a scan that declares size samples and carries n
ScanDocSized(size, n, v, num) ==
    [ScanDoc(n, v, num) EXCEPT !.f.scansize = Num(size)]
\* a channel setup with the given start mass, stop mass and ppamu
ChDoc(startMass, stopMass, ppamu) ==
    [DocOf(chAs, 1, "Sweep") EXCEPT !.f.startMass = Num(startMass),
                                    !.f.stopMass = Num(stopMass),
                                    !.f.ppamu = Num(ppamu)]
\* the answer to a set request
AckDoc == Doc([result |-> Num(1)])

\* the documents the instrument serves in normal operation
Served(r) ==
    CASE r = "diag" -> {DocOf(diagAs, 1, "")}
      [] r = "sensDetect" -> {DocOf(sensDetectAs, 100, "")}
      [] r = "ionSource" -> {IonSourceDoc("Lo", "Sensitivity")}
      [] r = "ch3" -> {DocOf(chAs, 1, "Sweep")}
      [] r = "ch4" -> {DocOf(chAs, 2, "Single")}
      [] r = "comm" -> {DocOf(commAs, 1, "addr")}
      [] r = "sensInfo" -> {DocOf(sensInfoAs, 1, "mph")}
      [] r = "devStatus" -> {DevStatusDoc(2)}
      [] r = "sensFilt" -> {DocOf(sensFiltAs, 1, "")}
      [] r = "scanInfo" -> { ScanInfoDoc(l, b) : l \in 0..MaxScan, b \in {0, 1} }
      [] r = "pressure" -> {DocOf(pressureAs, 1, "")}
      [] r = "leak" -> {ScanDoc(1, 1, 1), ScanDoc(2, 1, 1)}
      [] r = "scan" -> {ScanDoc(1, 1, 1), ScanDoc(2, 1, 1)}
      [] OTHER -> {AckDoc}

\* the documents a misbehaving endpoint may serve besides
Odd(r) ==
    CASE r = "diag" -> Damaged(diagAs, DocOf(diagAs, 1, ""))
      [] r = "sensDetect" ->
            Damaged(sensDetectAs, DocOf(sensDetectAs, 100, ""))
            \cup { SensDetectDoc(150, 10, 90, Real(7, 2), 2800),
                   SensDetectDoc(0, 0, 0, Num(0), 99),
                   SensDetectDoc(1, 1, 1, Real(1, 3), 250) }
      [] r = "ionSource" ->
            { IonSourceDoc("Off", "Sensitivity"), IonSourceDoc("Hi", "None"),
              IonSourceDoc("Hi", LongName),
              [IonSourceDoc("Lo", "Linearity") EXCEPT !.marks = {"ionSource"}] }
      [] r = "ch3" ->
            Damaged(chAs, DocOf(chAs, 1, "Sweep"))
            \cup {ChDoc(1, 2, 2), ChDoc(1, 2, 0), ChDoc(2, 1, 1)}
      [] r = "ch4" -> Damaged(chAs, DocOf(chAs, 2, "Single"))
      [] r = "comm" -> Damaged(commAs, DocOf(commAs, 1, "addr"))
      [] r = "sensInfo" -> Damaged(sensInfoAs, DocOf(sensInfoAs, 1, "mph"))
      [] r = "devStatus" ->
            Damaged(devStatusAs, DevStatusDoc(2))
            \cup { DevStatusDoc(MaxFilaments + 1), DevStatusDoc(FilamentsThatFit + 1),
                   [DevStatusDoc(2) EXCEPT !.marks = {"filaments"}] }
      [] r = "sensFilt" -> Damaged(sensFiltAs, DocOf(sensFiltAs, 1, ""))
      [] r = "scanInfo" -> Damaged(scanInfoAs, ScanInfoDoc(0, 1))
      [] r = "pressure" -> {Doc([data |-> Str("n/a")])}
      [] r = "leak" -> {ScanDoc(0, 1, 1), ScanDoc(2, 2, 1)}
      [] r = "scan" ->
            {ScanDoc(0, 1, 1), ScanDocSized(1, 2, 1, 1),
             ScanDoc(MAX_SCAN_SIZE + 1, 1, 1)}
      [] OTHER -> {}

(***************************************************************************)
(* State                                                                    *)
(***************************************************************************)
VARIABLES
    lockOwner,          \* holder of the port mutex: "none", "poller", "writer"
    xchg,               \* the threads inside pasynOctetSyncIO->writeRead
    data,               \* data_, the response buffer shared by all exchanges
    ioStatus,           \* ioStatus_
    cache,              \* the endpoint structs, the pressure, the leak value, the scan buffer
    par3,               \* parameter library, channel 3: start mass, stop mass, ppamu
    mainState,          \* mainState_
    startingMonitor,    \* startingMonitor_
    startingLeakcheck,  \* startingLeakcheck_
    lastPolledScan,     \* lastPolledScan_
    inficonExiting,     \* inficonExiting_
    interruptAccept,    \* the EPICS flag of the same name
    ppc,                \* where the poller thread is
    prevIOStatus,       \* the poller's local prevIOStatus
    dT,                 \* the poller's locals dTFifeSec and dTTenSec
    since,              \* seconds since cycleTimeFifeSec and cycleTimeTenSec, -1 before they are set
    w,                  \* the write request being served by the port thread
    cyc,                \* the current poll cycle: requests issued, last decode, callbacks made
    scn,                \* the run's scenario: write functions in use, misbehaving endpoints, clock
    rw                  \* a call of inficonReadWrite taken alone: what writeRead gave, what came back

vars == << lockOwner, xchg, data, ioStatus, cache, par3, mainState, startingMonitor,
           startingLeakcheck, lastPolledScan, inficonExiting, interruptAccept, ppc,
           prevIOStatus, dT, since, w, cyc, scn, rw >>

acqVars == << mainState, startingMonitor, startingLeakcheck, lastPolledScan >>
envVars == << inficonExiting, interruptAccept, scn, rw >>

(***************************************************************************)
(* The poll cycle's requests, in the order of the source                    *)
(***************************************************************************)
Tier5 == << "diag", "sensDetect", "ionSource", "ch3", "ch4" >>
Tier10 == << "comm", "sensInfo", "devStatus", "sensFilt" >>
Every == << "scanInfo", "pressure" >>
Pulls == {"leak", "scan"}
Reads == { Tier5[i] : i \in 1..Len(Tier5) } \cup { Tier10[i] : i \in 1..Len(Tier10) }
            \cup { Every[i] : i \in 1..Len(Every) } \cup Pulls

\* a 10 s group that runs in every cycle
DueTen_Always(d) == TRUE
\* if (dTFifeSec >= 5.) and if (dTTenSec >= 10.)
DueFive(d) == d.five >= FiveSec
DueTen(d) == d.ten >= TenSec

\* a cycle that leaves both tiers out
AfterLock_EveryOnly(d) == "scanInfo"
\* a cycle that goes from the groups straight to the scan pull
AfterTier5_ToPull(d) == "pull"
AfterTier5(d) == IF DueTen(d) THEN Tier10[1] ELSE Every[1]
AfterLock(d) == IF DueFive(d) THEN Tier5[1] ELSE AfterTier5(d)

\* the statement after the decode of request r
After(r, d) ==
    CASE r = "diag" -> "sensDetect"
      [] r = "sensDetect" -> "ionSource"
      [] r = "ionSource" -> "ch3"
      [] r = "ch3" -> "ch4"
      [] r = "ch4" -> AfterTier5(d)
      [] r = "comm" -> "sensInfo"
      [] r = "sensInfo" -> "devStatus"
      [] r = "devStatus" -> "sensFilt"
      [] r = "sensFilt" -> "scanInfo"
      [] r = "scanInfo" -> "pressure"
      [] r = "pressure" -> "pull"
      [] OTHER -> "errchk"

\* the decode that follows request r, applied to the buffer
Decode(r, doc, c, par) ==
    CASE r = "diag" ->
            LET x == parseDiagData(doc, c.diagData)
            IN [status |-> x.status, cache |-> [c EXCEPT !.diagData = x.val]]
      [] r = "sensDetect" ->
            LET x == parseSensDetect(doc, c.sensDetect)
            IN [status |-> x.status, cache |-> [c EXCEPT !.sensDetect = x.val]]
      [] r = "ionSource" ->
            LET x == parseSensIonSource(doc, c.sensIonSource)
            IN [status |-> x.status, cache |-> [c EXCEPT !.sensIonSource = x.val]]
      [] r = "ch3" ->
            LET x == parseChScanSetup(doc, c.chScanSetup[3])
            IN [status |-> x.status, cache |-> [c EXCEPT !.chScanSetup[3] = x.val]]
      [] r = "ch4" ->
            LET x == parseChScanSetup(doc, c.chScanSetup[4])
            IN [status |-> x.status, cache |-> [c EXCEPT !.chScanSetup[4] = x.val]]
      [] r = "comm" ->
            LET x == parseCommParam(doc, c.commParams)
            IN [status |-> x.status, cache |-> [c EXCEPT !.commParams = x.val]]
      [] r = "sensInfo" ->
            LET x == parseSensInfo(doc, c.sensInfo)
            IN [status |-> x.status, cache |-> [c EXCEPT !.sensInfo = x.val]]
      [] r = "devStatus" ->
            LET x == parseDevStatus(doc, c.devStatus)
            IN [status |-> x.status, cache |-> [c EXCEPT !.devStatus = x.val]]
      [] r = "sensFilt" ->
            LET x == parseSensFilt(doc, c.sensFilt)
            IN [status |-> x.status, cache |-> [c EXCEPT !.sensFilt = x.val]]
      [] r = "scanInfo" ->
            LET x == parseScanInfo(doc, c.scanInfo)
            IN [status |-> x.status, cache |-> [c EXCEPT !.scanInfo = x.val]]
      [] r = "pressure" ->
            LET x == parsePressure(doc, c.totalPressure)
            IN [status |-> x.status, cache |-> [c EXCEPT !.totalPressure = x.val]]
      [] r = "leak" ->
            LET x == parseLeakChk(doc, c.leakChk)
            IN [status |-> x.status, cache |-> [c EXCEPT !.leakChk = x.val]]
      [] r = "scan" ->
            LET x == parseScan(doc, c.scanData, par)
            IN [status |-> x.status, cache |-> [c EXCEPT !.scanData = x.val]]

\* the responses the instrument may give to the poller's request r
Responses(r) ==
    IF "dead" \in scn.opts
    THEN { [Ok(EmptyBuf) EXCEPT !.status = asynTimeout, !.nread = 0] }
    ELSE { Ok(d) : d \in Served(r) }
         \cup IF r \in scn.flaky
              THEN UNION { Faults(d) : d \in Served(r) } \cup { Ok(d) : d \in Odd(r) }
              ELSE {}

(***************************************************************************)
(* Construction                                                             *)
(***************************************************************************)
\* a struct from new without initialiser: every field holds what was in memory
Raw(as, g) ==
    [fld \in Fields(as) |->
        LET i == CHOOSE j \in 1..Len(as) : as[j].fld = fld
        IN IF as[i].sc = "str" THEN "" ELSE IF as[i].sc = "hours" THEN Hrs(g)
           ELSE IF as[i].sc = "real" THEN [num |-> g, den |-> 1] ELSE g]

RawCache(g, st, last) ==
    [ diagData |-> Raw(diagAs, g),
      sensDetect |-> Raw(sensDetectAs, g),
      sensIonSource |-> [filSel |-> g, emiLevel |-> g, optType |-> g],
      chScanSetup |-> [c \in {3, 4} |-> Raw(chAs, g)],
      commParams |-> Raw(commAs, g),
      sensInfo |-> Raw(sensInfoAs, g),
      devStatus |-> [fld \in Fields(devStatusAs) \cup {"filament"} |->
                        IF fld = "filament"
                        THEN [i \in 0..(MaxFilaments - 1) |-> Raw(filamentAs, g)]
                        ELSE Raw(devStatusAs, g)[fld]],
      sensFilt |-> Raw(sensFiltAs, g),
      scanInfo |-> [Raw(scanInfoAs, g) EXCEPT !.scanStatus = st, !.lastScan = last],
      totalPressure |-> [totalPressure |-> 0],
      leakChk |-> [leakChkValue |-> 0],
      scanData |-> [scanSize |-> g, actualScanSize |-> g, scanNumber |-> g,
                    scanValues |-> ZeroArr(g), amuValues |-> ZeroArr(Rat(g, 1)),
                    past |-> {}] ]

\* no call of inficonReadWrite has been looked at
NoCall == [made |-> FALSE]

NoPre == [mainState |-> IDLE, startingMonitor |-> FALSE, startingLeakcheck |-> FALSE,
          scanStatus |-> 0]
WIdle == [pc |-> "idle", fn |-> "none", ch |-> 0, val |-> 0, step |-> 0,
          ret |-> asynSuccess, fails |-> {}, pre |-> NoPre, n |-> 0, sent |-> << >>]
NoCycle == [reads |-> << >>, last |-> "none", status |-> "none", bad |-> {}, calls |-> 0,
            cleared |-> FALSE]

StartFns == {"startMonitor", "startLeakcheck"}
ChannelFns == {"startStopCh", "chPpamu", "chDwell", "chStartMass", "chStopMass"}
PlainFns == {"emiOn", "emOn", "rfGenOn", "shutdown", "emV", "scanStart", "filSel",
             "scanCount", "emGain", "emGainMass"}
NoIoFns == {"writeOctet", "other"}
WriteFns == StartFns \cup ChannelFns \cup PlainFns \cup NoIoFns \cup {"scanStop"}
\* the read handlers of the driver; each sets its result to 0 and returns
ReadFns == {"readUInt32Digital", "readInt32", "readFloat64", "readFloat32Array", "readOctet"}
\* what a client may ask of the port
RequestFns == WriteFns \cup ReadFns

\* a run's scenario: the write functions the clients use, whether set requests
\* may fail, the endpoints that may misbehave, whether the wall clock moves on,
\* whether the run starts before iocInit is through, whether the memory
\* behind the structs holds anything but zeroes, and what else is special:
\* "dead", the instrument answers nothing at all; "exit", the exit flag gets set
Scn(fns, wfail, flaky, clock, boot, raw, opts) ==
    [fns |-> fns, wfail |-> wfail, flaky |-> flaky, clock |-> clock, boot |-> boot,
     raw |-> raw, opts |-> opts]
Scenarios ==
    { Scn(StartFns \cup {"scanStop"}, TRUE, {}, FALSE, FALSE, FALSE, {}),
      Scn(StartFns, FALSE, Pulls, FALSE, FALSE, FALSE, {}),
      Scn(WriteFns \ StartFns, FALSE, {}, FALSE, FALSE, FALSE, {}),
      Scn({}, FALSE, {"pressure"}, TRUE, TRUE, TRUE, {}),
      Scn({}, FALSE, {}, TRUE, FALSE, FALSE, {"dead", "exit"}),
      Scn({"scanStop"}, FALSE, {"pressure"}, FALSE, TRUE, FALSE, {"exit"}),
      Scn({"startMonitor"}, FALSE, {"ch3", "scan"}, FALSE, FALSE, FALSE, {}),
      Scn(ReadFns \cup {"startMonitor"}, FALSE, {}, FALSE, FALSE, FALSE, {}) }
    \cup { Scn({}, FALSE, {r}, FALSE, FALSE, FALSE, {}) : r \in Reads \ Pulls }

InitIn(runs) ==
    /\ lockOwner = "none"
    /\ xchg = {}
    /\ data = EmptyBuf
    /\ ioStatus = asynSuccess
    /\ scn \in runs
    /\ \E st \in 0..2, last \in 0..MaxScan :
          /\ scn.raw \/ (st = 0 /\ last = 0)
          /\ cache = RawCache(0, st, last)
    /\ par3 = [def |-> FALSE, chStartMass |-> 0, chStopMass |-> 0, chPpamu |-> 0]
    /\ mainState = IDLE
    /\ startingMonitor = FALSE
    /\ startingLeakcheck = FALSE
    /\ lastPolledScan = -1
    /\ inficonExiting = FALSE
    /\ interruptAccept = ~scn.boot
    /\ ppc = "start"
    /\ prevIOStatus = asynSuccess
    /\ dT = [five |-> 0, ten |-> 0]
    /\ since = [five |-> -1, ten |-> -1]
    /\ w = WIdle
    /\ cyc = NoCycle
    /\ rw = NoCall
Init == InitIn(Scenarios)

(***************************************************************************)
(* The port mutex                                                           *)
(***************************************************************************)
\* a mutex that excludes nobody
CanLock_Always(owner) == TRUE
\* lock() returns once no other thread holds the mutex
CanLock(owner) == owner = "none"

(***************************************************************************)
(* The poller thread                                                        *)
(***************************************************************************)
\* lock() before the loop
PollerStart ==
    /\ ppc = "start"
    /\ CanLock(lockOwner)
    /\ lockOwner' = "poller"
    /\ ppc' = "top"
    /\ UNCHANGED << xchg, data, ioStatus, cache, par3, acqVars, envVars, prevIOStatus,
                    dT, since, w, cyc >>

\* unlock() at the top of the loop
PollerUnlock ==
    /\ ppc = "top"
    /\ lockOwner' = "none"
    /\ ppc' = "wait"
    /\ UNCHANGED << xchg, data, ioStatus, cache, par3, acqVars, envVars, prevIOStatus,
                    dT, since, w, cyc >>

\* the difference between now and a time stamp: while the stamp has never been
\* written it is whatever its memory makes it, and long ago if that is zeroes
Elapsed(s, due) == IF s # -1 THEN {s} ELSE IF scn.raw THEN {0, due} ELSE {due}

\* a loop that never looks at the exit flag
Exits_Never(flag) == FALSE
\* if (inficonExiting_) break;
Exits(flag) == flag

\* the wait, the exit test, and the two time differences
PollerWait ==
    /\ ppc = "wait"
    /\ IF Exits(inficonExiting)
       THEN ppc' = "done" /\ dT' = dT
       ELSE /\ ppc' = "lock"
            /\ \E five \in Elapsed(since.five, FiveSec), ten \in Elapsed(since.ten, TenSec) :
                   dT' = [five |-> five, ten |-> ten]
    /\ UNCHANGED << lockOwner, xchg, data, ioStatus, cache, par3, acqVars, envVars,
                    prevIOStatus, since, w, cyc >>

\* lock() for the cycle
PollerLock ==
    /\ ppc = "lock"
    /\ CanLock(lockOwner)
    /\ lockOwner' = "poller"
    /\ ppc' = AfterLock(dT)
    /\ cyc' = NoCycle
    /\ UNCHANGED << xchg, data, ioStatus, cache, par3, acqVars, envVars, prevIOStatus,
                    dT, since, w >>

\* a loop that gives the cycle up at the first decode that fails
Proceed_UntilError(r, status, d) == IF status # asynSuccess THEN "errchk" ELSE After(r, d)
\* what follows the decode of request r: the loop logs the decode's status and
\* goes on to its next statement
Proceed(r, status, d) == After(r, d)

\* a time stamp taken only when the group's last exchange went well
Stamp_IfOk(r, status, s) ==
    [five |-> IF r = "ch4" /\ status = asynSuccess THEN 0 ELSE s.five,
     ten |-> IF r = "sensFilt" /\ status = asynSuccess THEN 0 ELSE s.ten]
\* epicsTimeGetCurrent into a group's time stamp, after the group's last read
\* and whatever the status of its exchanges
Stamp(r, status, s) ==
    [five |-> IF r = "ch4" THEN 0 ELSE s.five,
     ten |-> IF r = "sensFilt" THEN 0 ELSE s.ten]

\* the memory behind the scan buffer has been written over: the thread may go
\* on as if nothing had happened, or the process may die of it
Smashed(c) == "amuValues" \in c.scanData.past

\* inficonReadWrite hands the request to writeRead
PollerReq(r) ==
    /\ ppc = r
    /\ xchg' = xchg \cup {"poller"}
    /\ ppc' = "io"
    /\ cyc' = [cyc EXCEPT !.reads = Append(@, r), !.last = r, !.status = "none"]
    /\ UNCHANGED << lockOwner, data, ioStatus, cache, par3, acqVars, envVars,
                    prevIOStatus, dT, since, w >>

\* a poller that takes a scan for polled only when its decode went well
Polled_IfOk(r, status, lastScan, polled) ==
    IF r \in {"leak", "scan"} /\ status = asynSuccess THEN lastScan ELSE polled
\* lastPolledScan_ = scanInfo_->lastScan; after the fetch and its decode,
\* whatever their status
Polled(r, status, lastScan, polled) ==
    IF r \in {"leak", "scan"} THEN lastScan ELSE polled

\* writeRead is back: the rest of inficonReadWrite, the decode, the parameters
\* set from the struct, and what follows the read in the loop
PollerRsp ==
    /\ ppc = "io"
    /\ \E rsp \in Responses(cyc.last) :
          LET r == cyc.last
              x == inficonReadWrite(rsp, data)
              dec == Decode(r, x.data, cache, par3)
          IN /\ ioStatus' = x.status
             /\ data' = x.data
             /\ cache' = dec.cache
             /\ cyc' = [cyc EXCEPT !.status = dec.status,
                                   !.bad = IF dec.status # asynSuccess THEN @ \cup {r} ELSE @]
             /\ par3' = IF r = "ch3"
                        THEN [def |-> TRUE,
                              chStartMass |-> dec.cache.chScanSetup[3].chStartMass,
                              chStopMass |-> dec.cache.chScanSetup[3].chStopMass,
                              chPpamu |-> dec.cache.chScanSetup[3].chPpamu]
                        ELSE par3
             /\ since' = Stamp(r, x.status, since)
             /\ lastPolledScan' = Polled(r, dec.status, dec.cache.scanInfo.lastScan,
                                         lastPolledScan)
             /\ ppc' \in {Proceed(r, dec.status, dT)}
                          \cup IF Smashed(dec.cache) /\ ~Smashed(cache)
                               THEN {"crashed"} ELSE {}
                          \cup IF r = "ionSource" /\ StempOverrun(x.data)
                               THEN {"crashed"} ELSE {}
                          \cup IF r = "devStatus" /\ SpliceOverrun(x.data)
                               THEN {"crashed"} ELSE {}
    /\ xchg' = xchg \ {"poller"}
    /\ UNCHANGED << lockOwner, mainState, startingMonitor, startingLeakcheck, envVars,
                    prevIOStatus, dT, w >>

\* a comparison that takes the scan already polled for a new one
Newer_OrSame(lastScan, polled) == lastScan >= polled
\* if (scanInfo_->lastScan > lastPolledScan_)
Newer(lastScan, polled) == lastScan > polled

\* a first cycle that keeps the scan number of the episode before
Rewound_Never(first, polled) == polled
\* if (startingMonitor_) { ... lastPolledScan_ = -1; and the same for the leak check
Rewound(first, polled) == IF first THEN -1 ELSE polled

\* a first cycle that leaves the arrays of the scan before in place
Wiped_Never(first, arr, zero) == arr
\* if (startingMonitor_) { memset(..., 0, MAX_SCAN_SIZE*sizeof(float)); ...
Wiped(first, arr, zero) == IF first THEN ZeroArr(zero) ELSE arr

\* pull blocks that do not look at the scan info
Scanning_Any(scanStatus) == TRUE
\* ... && scanInfo_->scanStatus == 1
Scanning(scanStatus) == scanStatus = 1

\* the two blocks after the pressure read: the just-entered flag, the restart
\* of the scan counter, the zeroing of the buffers, and whether to pull
PollerPull ==
    /\ ppc = "pull"
    /\ LET on == Scanning(cache.scanInfo.scanStatus)
           leak == mainState = LEAKCEHCK /\ on
           mon == mainState = MONITORING /\ on
           lps == Rewound((leak /\ startingLeakcheck) \/ (mon /\ startingMonitor),
                          lastPolledScan)
           newer == Newer(cache.scanInfo.lastScan, lps)
       IN /\ startingLeakcheck' = IF leak THEN FALSE ELSE startingLeakcheck
          /\ startingMonitor' = IF mon THEN FALSE ELSE startingMonitor
          /\ lastPolledScan' = lps
          /\ cache' = [cache EXCEPT
                          !.scanData.scanValues = Wiped(mon /\ startingMonitor, @, 0),
                          !.scanData.amuValues = Wiped(mon /\ startingMonitor, @, Rat(0, 1))]
          /\ cyc' = [cyc EXCEPT !.cleared = mon /\ startingMonitor]
          /\ ppc' = IF leak /\ newer THEN "leak"
                    ELSE IF mon /\ newer THEN "scan"
                    ELSE "errchk"
    /\ UNCHANGED << lockOwner, xchg, data, ioStatus, par3, mainState, envVars,
                    prevIOStatus, dT, since, w >>

\* an I/O error this time and the previous time: sleep, then the next cycle
SameError(io, prev) == io # asynSuccess /\ io = prev

PollerErrChk ==
    /\ ppc = "errchk"
    /\ ppc' = IF SameError(ioStatus, prevIOStatus) THEN "sleep1" ELSE "accept"
    /\ UNCHANGED << lockOwner, xchg, data, ioStatus, cache, par3, acqVars, envVars,
                    prevIOStatus, dT, since, w, cyc >>

\* epicsThreadSleep(1.0); continue
PollerSleep ==
    /\ ppc = "sleep1"
    /\ ppc' = "top"
    /\ UNCHANGED << lockOwner, xchg, data, ioStatus, cache, par3, acqVars, envVars,
                    prevIOStatus, dT, since, w, cyc >>

\* a loop that lets go of the mutex once in any case
Waits_Once(accept) == TRUE
\* while (!interruptAccept)
Waits(accept) == ~accept

\* while (!interruptAccept) { unlock(); epicsThreadSleep(0.1); ...
PollerAcceptUnlock ==
    /\ ppc = "accept"
    /\ Waits(interruptAccept)
    /\ lockOwner' = "none"
    /\ ppc' = "acceptSleep"
    /\ UNCHANGED << xchg, data, ioStatus, cache, par3, acqVars, envVars, prevIOStatus,
                    dT, since, w, cyc >>

\* ... lock(); }
PollerAcceptLock ==
    /\ ppc = "acceptSleep"
    /\ CanLock(lockOwner)
    /\ lockOwner' = "poller"
    /\ ppc' = "accept"
    /\ UNCHANGED << xchg, data, ioStatus, cache, par3, acqVars, envVars, prevIOStatus,
                    dT, since, w, cyc >>

\* callParamCallbacks for every address, and the previous status
PollerCallbacks ==
    /\ ppc = "accept"
    /\ ~Waits(interruptAccept)
    /\ cyc' = [cyc EXCEPT !.calls = MAX_CHANNELS]
    /\ prevIOStatus' = ioStatus
    /\ ppc' = "top"
    /\ UNCHANGED << lockOwner, xchg, data, ioStatus, cache, par3, acqVars, envVars,
                    dT, since, w >>

(***************************************************************************)
(* Write requests.  The port thread serves one request at a time; the        *)
(* asynPortDriver interface takes the port mutex around the handler.         *)
(***************************************************************************)
\* largest number of write requests in one run
MaxWrites == 2
\* the addresses and values requests come with
Addrs == {0, 3, MAX_CHANNELS}
Inputs(fn) ==
    { << ch, val >> \in Addrs \X {0, 1} :
        /\ ch = 0 \/ fn \in ChannelFns
        /\ val = 0 \/ fn = "scanStop" }

\* if (mainState_ != IDLE && scanInfo_->scanStatus != 0) return asynError;
StartRejected(state, scanStatus) == state # IDLE /\ scanStatus # 0
\* if (chNumber < 1 || chNumber >= MAX_CHANNELS) return asynError;
ChannelRejected(chNumber) == chNumber < 1 \/ chNumber >= MAX_CHANNELS
\* the exchanges a function makes when it is not rejected
\* read handlers that ask the instrument
Exchanges_ReadsAsk(fn) == IF fn \in StartFns THEN 5 ELSE IF fn \in NoIoFns THEN 0 ELSE 1
Exchanges(fn) ==
    IF fn \in StartFns THEN 5 ELSE IF fn \in NoIoFns \cup ReadFns THEN 0 ELSE 1
\* a start command that keeps the result of the scan start too
StartStatus_Kept(step, result, cur) == result
\* a return test that lets every result through
Failed_Never(io) == FALSE
\* a stop command that leaves the state alone
AfterStop_Same(state) == state
\* a start command keeps the result of each exchange in ioStatus_, except the
\* result of the last one, the scan start, which it drops
StartStatus(step, result, cur) == IF step = 5 THEN cur ELSE result
\* if (ioStatus_ != asynSuccess) return(ioStatus_);
Failed(io) == io # asynSuccess
\* the state a stop command leaves behind
AfterStop(state) == IDLE
AfterStart(fn) == IF fn = "startMonitor" THEN MONITORING ELSE LEAKCEHCK

\* the channel and the mode a start command sets up
StartChannel(fn) == IF fn = "startMonitor" THEN "3" ELSE "4"
StartMode(fn) == IF fn = "startMonitor" THEN "Sweep" ELSE "Single"
\* a start command that starts the scan before it has set it up
StartRequests_StartFirst(fn) ==
    << "scanSetup/scanStart/set?1",
       "scanSetup/scanStop/set?Immediately",
       "scanSetup/channels/" \o StartChannel(fn) \o "/set?channelMode="
           \o StartMode(fn) \o "&enabled=True",
       "scanSetup/set?startChannel=" \o StartChannel(fn)
           \o "&stopChannel=" \o StartChannel(fn),
       "scanSetup/scanCount/set?-1" >>
\* the requests of a start command, in the order of its sprintf calls
StartRequests(fn) ==
    << "scanSetup/scanStop/set?Immediately",
       "scanSetup/channels/" \o StartChannel(fn) \o "/set?channelMode="
           \o StartMode(fn) \o "&enabled=True",
       "scanSetup/set?startChannel=" \o StartChannel(fn)
           \o "&stopChannel=" \o StartChannel(fn),
       "scanSetup/scanCount/set?-1",
       "scanSetup/scanStart/set?1" >>
\* the request of a handler's exchange number step: the path after /mmsp/ for a
\* start command, the function's name for the others
Request(fn, step) == IF fn \in StartFns THEN StartRequests(fn)[step] ELSE fn

\* a driver that takes a raw scan start for the start of a monitoring
StateAfter_RawStart(fn, state) ==
    IF fn = "scanStop" THEN AfterStop(state)
    ELSE IF fn \in StartFns THEN AfterStart(fn)
    ELSE IF fn = "scanStart" THEN MONITORING
    ELSE state
\* the acquisition state after the last exchange of a handler that went
\* through: the branches of scanStop_, startMonitor_ and startLeakcheck_ assign
\* mainState_, no other branch does
StateAfter(fn, state) ==
    IF fn = "scanStop" THEN AfterStop(state)
    ELSE IF fn \in StartFns THEN AfterStart(fn)
    ELSE state

\* the answers to a set request
WResponses ==
    {Ok(AckDoc)}
    \cup IF scn.wfail
         THEN { [Ok(AckDoc) EXCEPT !.status = asynTimeout, !.nread = 0],
                [Ok(AckDoc) EXCEPT !.code = 404] }
         ELSE {}

\* the handler is entered with the port locked, and runs up to its first
\* exchange or to its return
WriteCall(fn, ch, val) ==
    /\ w.pc = "idle"
    /\ w.n < MaxWrites
    /\ fn \in scn.fns
    /\ << ch, val >> \in Inputs(fn)
    /\ CanLock(lockOwner)
    /\ lockOwner' = "writer"
    /\ LET rejected == \/ fn \in StartFns /\ StartRejected(mainState, cache.scanInfo.scanStatus)
                       \/ fn \in ChannelFns /\ ChannelRejected(ch)
                       \/ fn = "other"
       IN w' = [pc |-> IF rejected \/ Exchanges(fn) = 0 THEN "ret" ELSE "rq",
                fn |-> fn, ch |-> ch, val |-> val, step |-> 0,
                ret |-> IF rejected THEN asynError ELSE asynSuccess,
                fails |-> {},
                pre |-> [mainState |-> mainState, startingMonitor |-> startingMonitor,
                         startingLeakcheck |-> startingLeakcheck,
                         scanStatus |-> cache.scanInfo.scanStatus],
                n |-> w.n + 1, sent |-> << >>]
    /\ UNCHANGED << xchg, data, ioStatus, cache, par3, acqVars, envVars, ppc,
                    prevIOStatus, dT, since, cyc >>

WriteReq ==
    /\ w.pc = "rq"
    /\ xchg' = xchg \cup {"writer"}
    /\ w' = [w EXCEPT !.pc = "io", !.sent = Append(@, Request(w.fn, w.step + 1))]
    /\ UNCHANGED << lockOwner, data, ioStatus, cache, par3, acqVars, envVars, ppc,
                    prevIOStatus, dT, since, cyc >>

\* writeRead is back: the rest of inficonReadWrite and the handler up to its
\* next exchange or to its return
WriteRsp ==
    /\ w.pc = "io"
    /\ \E rsp \in WResponses :
          LET x == inficonReadWrite(rsp, data)
              step == w.step + 1
              io == IF w.fn \in StartFns THEN StartStatus(step, x.status, ioStatus)
                    ELSE x.status
              last == step = Exchanges(w.fn)
              done == last /\ ~Failed(io)
          IN /\ data' = x.data
             /\ ioStatus' = io
             /\ w' = [w EXCEPT !.step = step,
                               !.fails = IF x.status # asynSuccess THEN @ \cup {step} ELSE @,
                               !.pc = IF last THEN "ret" ELSE "rq",
                               !.ret = IF last /\ Failed(io) THEN io ELSE asynSuccess]
             /\ mainState' = IF done THEN StateAfter(w.fn, mainState) ELSE mainState
             /\ startingMonitor' = (startingMonitor \/ (done /\ w.fn = "startMonitor"))
             /\ startingLeakcheck' = (startingLeakcheck \/ (done /\ w.fn = "startLeakcheck"))
    /\ xchg' = xchg \ {"writer"}
    /\ UNCHANGED << lockOwner, cache, par3, lastPolledScan, envVars, ppc, prevIOStatus,
                    dT, since, cyc >>

\* the handler has returned: the interface unlocks the port
WriteReturn ==
    /\ w.pc = "ret"
    /\ lockOwner' = "none"
    /\ w' = [WIdle EXCEPT !.n = w.n]
    /\ UNCHANGED << xchg, data, ioStatus, cache, par3, acqVars, envVars, ppc,
                    prevIOStatus, dT, since, cyc >>

(***************************************************************************)
(* The surroundings                                                         *)
(***************************************************************************)
\* iocInit is through: EPICS sets interruptAccept
IocInitDone ==
    /\ ~interruptAccept
    /\ interruptAccept' = TRUE
    /\ UNCHANGED << lockOwner, xchg, data, ioStatus, cache, par3, acqVars, inficonExiting,
                    scn, rw, ppc, prevIOStatus, dT, since, w, cyc >>

\* the exit flag is set from outside the driver and the event is signalled
SetExiting ==
    /\ "exit" \in scn.opts
    /\ ~inficonExiting
    /\ inficonExiting' = TRUE
    /\ UNCHANGED << lockOwner, xchg, data, ioStatus, cache, par3, acqVars, interruptAccept,
                    scn, rw, ppc, prevIOStatus, dT, since, w, cyc >>

\* five seconds pass while the poller waits or sleeps
Tick ==
    /\ scn.clock
    /\ ppc \in {"wait", "lock", "sleep1", "acceptSleep"}
    /\ \E k \in {"five", "ten"} : since[k] \notin {-1, TenSec}
    /\ since' = [k \in {"five", "ten"} |->
                    IF since[k] = -1 THEN -1
                    ELSE IF since[k] + FiveSec > TenSec THEN TenSec ELSE since[k] + FiveSec]
    /\ UNCHANGED << lockOwner, xchg, data, ioStatus, cache, par3, acqVars, envVars, ppc,
                    prevIOStatus, dT, w, cyc >>

Next ==
    \/ PollerStart
    \/ PollerUnlock
    \/ PollerWait
    \/ PollerLock
    \/ \E r \in Reads : PollerReq(r)
    \/ PollerRsp
    \/ PollerPull
    \/ PollerErrChk
    \/ PollerSleep
    \/ PollerAcceptUnlock
    \/ PollerAcceptLock
    \/ PollerCallbacks
    \/ \E fn \in RequestFns, ch \in Addrs, val \in {0, 1} : WriteCall(fn, ch, val)
    \/ WriteReq
    \/ WriteRsp
    \/ WriteReturn
    \/ IocInitDone
    \/ SetExiting
    \/ Tick

Spec == Init /\ [][Next]_vars

\* the steps of the poller thread
PollerStep ==
    \/ PollerStart
    \/ PollerUnlock
    \/ PollerWait
    \/ PollerLock
    \/ \E r \in Reads : PollerReq(r)
    \/ PollerRsp
    \/ PollerPull
    \/ PollerErrChk
    \/ PollerSleep
    \/ PollerAcceptUnlock
    \/ PollerAcceptLock
    \/ PollerCallbacks
\* the steps of a write request once the port thread has taken it up
WriterStep == WriteReq \/ WriteRsp \/ WriteReturn

\* The poller thread and the port thread are scheduled and their waits are
\* bounded: the event wait and the sleeps time out, writeRead returns by its
\* timeout, and a write handler returns and gives the mutex back.  The startup
\* script calls iocInit, which sets interruptAccept.
Fairness ==
    /\ WF_vars(PollerStep)
    /\ WF_vars(WriterStep)
    /\ WF_vars(IocInitDone)
\* the runs in which something outside the driver sets the exit flag
InitExit == Init /\ "exit" \in scn.opts
SpecFair == InitExit /\ [][Next]_vars /\ Fairness

(***************************************************************************)
(* inficonReadWrite taken alone: one call for each thing writeRead can give *)
(***************************************************************************)
\* a run in which nothing happens but such calls
PureScn == Scn({}, FALSE, {}, FALSE, FALSE, FALSE, {"pure"})
\* the response holds "HTTP/1.1" with no number after it
NoCode == -1
\* sscanf(substring, "HTTP/1.1 %3d", &responseCode): responseCode is not
\* initialised, so without a number it is whatever its memory holds, the 200
\* of the call before included
Scanned(code) == IF code = NoCode THEN {HTTP_OK, 0} ELSE {code}
\* no bytes: nothing in them; the braces can lie the wrong way round only if
\* both are there
Transports ==
    { r \in [status : {asynSuccess, asynTimeout, asynError, asynDisconnected},
             nread : {0, 1}, marker : BOOLEAN, code : {HTTP_OK, 404, NoCode},
             lbrace : BOOLEAN, rbrace : BOOLEAN, swapped : BOOLEAN,
             doc : {DocOf(pressureAs, 1, "")}] :
        /\ r.nread = 0 => (~r.marker /\ ~r.lbrace /\ ~r.rbrace /\ r.code = NoCode)
        /\ r.swapped => (r.lbrace /\ r.rbrace) }
\* the response buffer before the call: empty, or the payload of a call before
Bufs == {EmptyBuf, DocOf(diagAs, 1, "")}

RwCall(rsp, buf) ==
    /\ "pure" \in scn.opts
    /\ \E code \in Scanned(rsp.code) :
          LET x == inficonReadWrite([rsp EXCEPT !.code = code], buf)
              back == [made |-> TRUE, rsp |-> rsp, buf |-> buf,
                       status |-> x.status, data |-> x.data]
          IN rw' \in {back} \cup IF x.data = Wild
                                 THEN {[back EXCEPT !.status = "crashed"]} ELSE {}
    /\ UNCHANGED << lockOwner, xchg, data, ioStatus, cache, par3, acqVars, inficonExiting,
                    interruptAccept, scn, ppc, prevIOStatus, dT, since, w, cyc >>

InitRW == InitIn({PureScn})
NextRW == \E rsp \in Transports, buf \in Bufs : RwCall(rsp, buf)
SpecRW == InitRW /\ [][NextRW]_vars

(***************************************************************************)
(* The splice of parseDevStatus, applied to texts.  A text is a sequence of  *)
(* bytes; the two landmarks stand for one byte each.                         *)
(***************************************************************************)
\* longest text of a status document
MaxText == 5
\* the length of jsonDataSubstring: 1500 in the source, small here so that the
\* texts of the model can exceed it
SubstringSize == 4
TextBytes == {"peakfind", "filaments", "x"}
Texts == UNION { [1..n -> TextBytes] : n \in 0..MaxText }
\* strstr found nothing
Absent == -1
\* strstr(text, mark) - text: the offset of the first occurrence
strstr(text, mark) ==
    IF \E i \in 1..Len(text) : text[i] = mark
    THEN (CHOOSE i \in 1..Len(text) :
             text[i] = mark /\ \A k \in 1..(i - 1) : text[k] # mark) - 1
    ELSE Absent
\* the text at cutTo - 1: with "filaments" at the start of the text the first
\* byte is the one in front of the response buffer, any byte or a terminator
TailFrom(text, cutTo) ==
    IF cutTo > 0 THEN {SubSeq(text, cutTo, Len(text))}
    ELSE {<<"x">> \o text, << >>}
\* a splice that checks nothing before it copies
Overruns_Never(len, tail) == FALSE
\* strncpy of len bytes, the terminator at [len] and strcpy of the tail with
\* its terminator write behind jsonDataSubstring
Overruns(len, tail) == len + Len(tail) + 1 > SubstringSize
\* the outcomes of the splice: returned before it, the spliced text, or a
\* copy that ran behind the buffer (len = cutAt - 1 wraps for cutAt = 0)
Splice(text) ==
    LET cutAt == strstr(text, "peakfind")
        cutTo == strstr(text, "filaments")
        len == cutAt - 1
    IN IF cutAt = Absent \/ cutTo = Absent
       THEN {[status |-> "corrupted", out |-> << >>]}
       ELSE IF len < 0 THEN {[status |-> "crashed", out |-> << >>]}
       ELSE UNION { {[status |-> "spliced", out |-> SubSeq(text, 1, len) \o tail]}
                    \cup IF Overruns(len, tail)
                         THEN {[status |-> "crashed", out |-> << >>]} ELSE {}
                    : tail \in TailFrom(text, cutTo) }
\* the status document of the text: the landmarks found in it
DocOfText(text) ==
    [DevStatusDoc(2) EXCEPT !.marks = {m \in {"peakfind", "filaments"} :
                                          strstr(text, m) # Absent}]

SpliceScn == Scn({}, FALSE, {}, FALSE, FALSE, FALSE, {"splice"})
\* parseDevStatus applied once to a text and a struct
SpliceCall(text, g) ==
    /\ "splice" \in scn.opts
    /\ ~rw.made
    /\ LET old == RawCache(g, 0, 0).devStatus
           dec == parseDevStatus(DocOfText(text), old)
       IN \E o \in Splice(text) :
             rw' = [made |-> TRUE, text |-> text, status |-> o.status, out |-> o.out,
                    old |-> old, ret |-> dec.status, val |-> dec.val]
    /\ UNCHANGED << lockOwner, xchg, data, ioStatus, cache, par3, acqVars, inficonExiting,
                    interruptAccept, scn, ppc, prevIOStatus, dT, since, w, cyc >>

InitSplice == InitIn({SpliceScn})
NextSplice == \E text \in Texts, g \in {0, 1} : SpliceCall(text, g)
SpecSplice == InitSplice /\ [][NextSplice]_vars

(***************************************************************************)
(* Properties                                                               *)
(***************************************************************************)
IsPrefix(a, b) == Len(a) <= Len(b) /\ SubSeq(b, 1, Len(a)) = a
\* the write request in progress is a start command
Starting == w.pc # "idle" /\ w.fn \in StartFns
\* the start command was turned down before any exchange and changed nothing
TurnedDown ==
    /\ w.pc = "ret"
    /\ w.ret = asynError
    /\ w.step = 0
    /\ mainState = w.pre.mainState
\* the acquisition state and the just-entered flags are as the request found them
AcqUntouched ==
    /\ mainState = w.pre.mainState
    /\ startingMonitor = w.pre.startingMonitor
    /\ startingLeakcheck = w.pre.startingLeakcheck
\* the reads that decode into an endpoint struct
StructReads == Reads \ ({"pressure"} \cup Pulls)
\* the poller's step from a finished exchange to what follows it
ReadDone == ppc = "io" /\ ppc' # "io"

\* C1: a start command issued while the state is Monitoring or LeakCheck is
\* rejected with an error, makes no exchange and leaves the state as it is,
\* whatever the cached scanning flag says
C1_StartRejectedWhenBusy ==
    (Starting /\ w.pre.mainState \in {MONITORING, LEAKCEHCK}) => TurnedDown

\* C2: a start command issued in Idle while the cached scanning flag is set is
\* rejected and the state stays Idle
C2_StartNeedsNotScanning ==
    (Starting /\ w.pre.mainState = IDLE /\ w.pre.scanStatus # 0) => TurnedDown

\* C3: when an exchange of a start command before the final scan start has
\* failed, the command returns with the state and the just-entered flags as
\* it found them
C3_FailedSetupKeepsState ==
    (Starting /\ w.pc = "ret" /\ w.fails \cap (1..4) # {}) => AcqUntouched

\* C4: a decode into an endpoint struct that ends in an error leaves the
\* struct, and so the whole cache, as it was
C4_DecodeCommitsAtomically ==
    [][(ReadDone /\ cyc.last \in StructReads /\ cyc'.status # asynSuccess)
          => cache' = cache]_vars

\* C5: a read whose exchange fails has its decode return an error and leaves
\* the cache as it was
C5_FailedReadKeepsStruct ==
    [][(ReadDone /\ ioStatus' # asynSuccess)
          => (cyc'.status = asynError /\ cache' = cache)]_vars

\* C6: at most one exchange with the instrument is in flight at any time
C6_OneExchangeInFlight == Cardinality(xchg) <= 1
\* a write request is inside its exchange while the poller waits for the mutex
C6_Witness == xchg = {"writer"} /\ ppc = "lock" /\ lockOwner = "writer"

\* C7: a stop command whose exchange succeeded returns success with the state
\* Idle, from any state and for either stop value
C7_StopSucceededIsIdle ==
    (w.pc = "ret" /\ w.fn = "scanStop" /\ w.fails = {})
        => (mainState = IDLE /\ w.ret = asynSuccess)
\* an end-of-scan stop has gone through while monitoring
C7_Witness ==
    /\ w.pc = "ret" /\ w.fn = "scanStop" /\ w.fails = {}
    /\ w.val = 1 /\ w.pre.mainState = MONITORING /\ mainState = IDLE

\* C8: a stop command whose exchange failed returns an error and leaves the
\* state as it found it
C8_StopFailedKeepsState ==
    (w.pc = "ret" /\ w.fn = "scanStop" /\ w.fails # {})
        => (w.ret = asynError /\ mainState = w.pre.mainState)
\* a stop has failed during a leak check
C8_Witness ==
    /\ w.pc = "ret" /\ w.fn = "scanStop" /\ w.fails # {}
    /\ w.pre.mainState = LEAKCEHCK /\ mainState = LEAKCEHCK

\* C9: a start command that was not rejected and whose four exchanges before
\* the scan start succeeded ends in its acquisition state with its
\* just-entered flag set, whether the scan start succeeded or failed
C9_ScanStartNeverGates ==
    (Starting /\ w.pc = "ret" /\ w.step = 5 /\ w.fails \cap (1..4) = {})
        => /\ w.ret = asynSuccess
           /\ mainState = AfterStart(w.fn)
           /\ w.fn = "startMonitor" => startingMonitor
           /\ w.fn = "startLeakcheck" => startingLeakcheck
\* a start of monitoring from Idle has gone through with its scan start failed
C9_Witness ==
    /\ Starting /\ w.pc = "ret" /\ w.fails = {5} /\ w.fn = "startMonitor"
    /\ w.pre.mainState = IDLE /\ w.pre.scanStatus = 0
    /\ mainState = MONITORING /\ startingMonitor

\* the reads of a cycle whose time differences are d, without the pull
TierReads(d) ==
    (IF DueFive(d) THEN Tier5 ELSE << >>) \o (IF DueTen(d) THEN Tier10 ELSE << >>)
PullSeqs == { << >>, << "leak" >>, << "scan" >> }
\* the poller is inside a cycle or has just left one
InCycle == ppc \notin {"start", "lock"}

\* C10, as the code has it: in every cycle the reads come in the order 5 s
\* group (when due), 10 s group (when due), scan info, total pressure, scan pull
C10_ReadOrder ==
    InCycle => \E p \in PullSeqs : IsPrefix(cyc.reads, TierReads(dT) \o Every \o p)
\* C10, as stated: scan info first, then total pressure, then the tier groups,
\* then the scan pull
C10_ScanInfoFirst ==
    InCycle => \E p \in PullSeqs : IsPrefix(cyc.reads, Every \o TierReads(dT) \o p)
\* a cycle has made all its reads: both groups, scan info, pressure and a pull
C10_Witness ==
    /\ ppc = "errchk"
    /\ cyc.reads = Tier5 \o Tier10 \o Every \o << "scan" >>

\* the poller is about to issue, or has in flight, a read of the group t
InTier(t) ==
    \E i \in 1..Len(t) : ppc = t[i] \/ (ppc = "io" /\ cyc.last = t[i])

\* C11: once a group has run, its reads are not issued again before its
\* interval has passed since its time stamp: 10 s for the 10 s group, 5 s for
\* the 5 s group, each by its own time stamp
C11_TierNotEarly ==
    /\ InTier(Tier10) => (since.ten = -1 \/ since.ten >= TenSec)
    /\ InTier(Tier5) => (since.five = -1 \/ since.five >= FiveSec)
\* the 5 s group runs again after 5 s in a cycle that leaves the 10 s group,
\* stamped at the same time, out
C11_Witness ==
    /\ ppc = "pull"
    /\ cyc.reads = Tier5 \o Every
    /\ dT = [five |-> FiveSec, ten |-> FiveSec]
    /\ since = [five |-> 0, ten |-> FiveSec]

\* the poller is past the every-cycle reads of its cycle
PastEvery ==
    \/ ppc \in {"pull", "leak", "scan", "errchk", "sleep1", "accept", "acceptSleep"}
    \/ ppc = "io" /\ cyc.last \in Pulls

C13_StampAfterTier ==
    [][ReadDone =>
          /\ cyc.last = "ch4" => (since'.five = 0 /\ since'.ten = since.ten)
          /\ cyc.last = "sensFilt" => (since'.ten = 0 /\ since'.five = since.five)
          /\ cyc.last \notin {"ch4", "sensFilt"} => since' = since]_vars
\* the 5 s group has just ended with every one of its reads failed, and is stamped
C13_Witness ==
    /\ cyc.last = "ch4" /\ ppc # "io"
    /\ cyc.bad = { Tier5[i] : i \in 1..Len(Tier5) }
    /\ ioStatus = asynError
    /\ since.five = 0

\* the poller has left a cycle behind and has not begun the next
CycleOver == ppc \in {"top", "wait"} /\ cyc.reads # << >>

\* C14: in every cycle, a cycle with failed exchanges and a cycle after a failed
\* cycle included, callParamCallbacks is called once for each address
C14_CallbacksEveryCycle == CycleOver => cyc.calls = MAX_CHANNELS

\* C15: whatever documents were decoded, the scan buffer holds no more samples
\* than the declared size, the declared size is at most MAX_SCAN_SIZE, and
\* neither array was written beyond its last element
C15_ScanBufferBounds ==
    /\ cache.scanData.actualScanSize <= cache.scanData.scanSize
    /\ cache.scanData.scanSize <= MAX_SCAN_SIZE
    /\ cache.scanData.past = {}

\* C16: a channel-addressed write command (channel selection, ppAMU, dwell,
\* start mass, stop mass) is accepted for each channel of 1..MAX_CHANNELS, and
\* for a channel outside that range returns an error without any exchange
C16_ChannelRange ==
    (w.pc # "idle" /\ w.fn \in ChannelFns) =>
        IF w.ch \in 1..MAX_CHANNELS
        THEN ~(w.pc = "ret" /\ w.step = 0 /\ w.ret = asynError)
        ELSE w.pc = "ret" /\ w.step = 0 /\ w.ret = asynError

\* the cache with the struct that the decode of read r targets blanked out
Blanked(c, r) ==
    CASE r = "diag" -> [c EXCEPT !.diagData = 0]
      [] r = "sensDetect" -> [c EXCEPT !.sensDetect = 0]
      [] r = "ionSource" -> [c EXCEPT !.sensIonSource = 0]
      [] r = "ch3" -> [c EXCEPT !.chScanSetup[3] = 0]
      [] r = "ch4" -> [c EXCEPT !.chScanSetup[4] = 0]
      [] r = "comm" -> [c EXCEPT !.commParams = 0]
      [] r = "sensInfo" -> [c EXCEPT !.sensInfo = 0]
      [] r = "devStatus" -> [c EXCEPT !.devStatus = 0]
      [] r = "sensFilt" -> [c EXCEPT !.sensFilt = 0]
      [] r = "scanInfo" -> [c EXCEPT !.scanInfo = 0]
      [] r = "pressure" -> [c EXCEPT !.totalPressure = 0]
      [] r = "leak" -> [c EXCEPT !.leakChk = 0]
      [] r = "scan" -> [c EXCEPT !.scanData = 0]
\* the poller is at the end of its cycle's reads
ReadsOver == ppc \in {"errchk", "sleep1", "accept", "acceptSleep"}
\* the scan pull that the state calls for after the pressure read
PullDue ==
    /\ cache.scanInfo.scanStatus = 1
    /\ mainState \in {MONITORING, LEAKCEHCK}
    /\ cache.scanInfo.lastScan >
          (IF (mainState = LEAKCEHCK /\ startingLeakcheck)
               \/ (mainState = MONITORING /\ startingMonitor)
           THEN -1 ELSE lastPolledScan)

ElemAt(a, i) == IF i <= Len(a.el) THEN a.el[i] ELSE a.fill
\* the document went through the JSON part of parseScan
ScanParsed(doc) ==
    /\ doc.ok
    /\ Get(doc, "scansize").t = "number"
    /\ Get(doc, "scannum").t = "number"
    /\ Get(doc, "values").t = "array"
    /\ \A i \in 1..Len(doc.vals) : doc.vals[i].t = "number"
\* the locals of parseScan after the three parameter reads
Locals(par) ==
    IF par.def THEN [startMass |-> par.chStartMass, stopMass |-> par.chStopMass,
                     ppAMU |-> par.chPpamu]
    ELSE [startMass |-> 0, stopMass |-> 0, ppAMU |-> 0]
\* the poller's step out of the decode of a scan document that parsed
ScanDecoded == ReadDone /\ cyc.last = "scan" /\ ScanParsed(data')

\* C18: when the validation of the axis parameters fails (ppAMU <= 0, declared
\* size <= 0, or start mass above stop mass), the scan decode returns an error
\* and every element of the mass axis is what it was before the call
C18_InvalidAxisKept ==
    [][(/\ ScanDecoded
        /\ \/ Locals(par3).ppAMU <= 0
           \/ cache'.scanData.scanSize <= 0
           \/ Locals(par3).startMass > Locals(par3).stopMass)
          => /\ cyc'.status = asynError
             /\ \A i \in 1..MAX_SCAN_SIZE :
                   ElemAt(cache'.scanData.amuValues, i) = ElemAt(cache.scanData.amuValues, i)
       ]_vars

\* C19: for valid parameters (ppAMU > 0, scanSize > 0, start mass <= stop
\* mass) the scan decode succeeds and leaves axis[i] = startMass + i/ppAMU for
\* every i below scanSize, and writes exactly scanSize elements of the axis
C19_AxisComputed ==
    [][(/\ ScanDecoded
        /\ Locals(par3).ppAMU > 0
        /\ cache'.scanData.scanSize > 0
        /\ Locals(par3).startMass <= Locals(par3).stopMass)
          => LET n == cache'.scanData.scanSize
                 l == Locals(par3)
             IN /\ cyc'.status = asynSuccess
                /\ n <= MAX_SCAN_SIZE
                /\ cache'.scanData.past = cache.scanData.past
                /\ \A i \in 1..MAX_SCAN_SIZE :
                      ElemAt(cache'.scanData.amuValues, i) =
                         IF i <= n THEN Rat(l.startMass * l.ppAMU + (i - 1), l.ppAMU)
                         ELSE ElemAt(cache.scanData.amuValues, i)
       ]_vars

\* C20: once the exit flag is set the poller leaves its loop only at the exit
\* test after the wait, with no exchange of its own under way and without the
\* mutex; it begins no cycle from a wait that found the flag set; having
\* left, it stays out; and it does leave in the end
C20_ExitAfterCycle ==
    /\ [][(ppc' = "done" /\ ppc # "done")
             => (ppc = "wait" /\ "poller" \notin xchg /\ lockOwner # "poller")]_vars
    /\ [][(inficonExiting /\ ppc = "wait") => ppc' \in {"wait", "done"}]_vars
    /\ [][ppc = "done" => (ppc' = "done" /\ lockOwner' # "poller")]_vars
    /\ (inficonExiting ~> (ppc = "done" /\ lockOwner # "poller"))
\* the flag was set during a cycle, the cycle was carried through to its
\* callbacks, and the poller has left the loop
C20_Witness ==
    /\ ppc = "done"
    /\ inficonExiting
    /\ lockOwner # "poller"
    /\ cyc.reads = Tier5 \o Tier10 \o Every
    /\ cyc.calls = MAX_CHANNELS

\* a step of a read request: its call or its return
ReadStep == w' # w /\ (w.fn \in ReadFns \/ w'.fn \in ReadFns)

\* C21: a read request of any type starts no exchange with the instrument
\* and changes no endpoint struct, nor the scan buffer, nor the acquisition
\* state
C21_ReadsAreLocal ==
    /\ [][ReadStep => /\ xchg' = xchg
                      /\ data' = data
                      /\ ioStatus' = ioStatus
                      /\ cache' = cache
                      /\ par3' = par3
                      /\ acqVars' = acqVars]_vars
    /\ []((w.pc # "idle" /\ w.fn \in ReadFns)
             => (w.pc = "ret" /\ w.step = 0 /\ "writer" \notin xchg))
\* an array read returns while the driver is monitoring and the structs are filled
C21_Witness ==
    /\ w.pc = "ret" /\ w.fn = "readFloat32Array" /\ w.ret = asynSuccess
    /\ mainState = MONITORING
    /\ cache.diagData # RawCache(0, 0, 0).diagData

\* C22: the sensor-detector decoder stores emVoltageMax, emVoltageMin,
\* emVoltage and emGain as reported and emGainMass as the reported integer
\* divided by 100, the fraction dropped; 150, 10, 90, 3.5, 2800 give
\* emVMax 150, emVMin 10, emV 90, emGain 3.5, emGainMass 28
C22_SensDetectScaled ==
    [][(ReadDone /\ cyc.last = "sensDetect" /\ cyc'.status = asynSuccess)
          => LET v(key) == Get(data', key)
                 d == cache'.sensDetect
             IN /\ d.emVMax = v("emVoltageMax").n
                /\ d.emVMin = v("emVoltageMin").n
                /\ d.emV = v("emVoltage").n
                /\ d.emGain.num * (IF "d" \in DOMAIN v("emGain") THEN v("emGain").d ELSE 1)
                      = v("emGain").n * d.emGain.den
                /\ d.emGainMass * 100 <= v("emGainMass").n
                /\ v("emGainMass").n < (d.emGainMass + 1) * 100
                /\ (data' = SensDetectDoc(150, 10, 90, Real(7, 2), 2800)
                      => d = [emVMax |-> 150, emVMin |-> 10, emV |-> 90,
                              emGain |-> Rat(7, 2), emGainMass |-> 28])]_vars
\* the document of the example has been decoded
C22_Witness ==
    /\ cyc.last = "sensDetect" /\ cyc.status = asynSuccess /\ ppc # "io"
    /\ cache.sensDetect.emGainMass = 28
    /\ cache.sensDetect.emGain = Rat(7, 2)

\* the state is Monitoring or LeakCheck and the cached scan info says scanning
Active == mainState \in {MONITORING, LEAKCEHCK} /\ cache.scanInfo.scanStatus = 1

\* C23: in a cycle with the state Monitoring or LeakCheck and the cached scan
\* info scanning, the latest scan is fetched exactly when the cached number of
\* the last completed scan is greater than lastPolledScan_ as the comparison
\* finds it, and after the fetch lastPolledScan_ is that number
C23_FetchWhenNewer ==
    /\ [][(ppc = "pull" /\ ppc' # "pull" /\ Active)
             => (ppc' \in Pulls <=> cache.scanInfo.lastScan > lastPolledScan')]_vars
    /\ [][(ReadDone /\ cyc.last \in Pulls)
             => (lastPolledScan' = cache.scanInfo.lastScan /\ cache'.scanInfo = cache.scanInfo)]_vars
    /\ [][(lastPolledScan' # lastPolledScan)
             => \/ ReadDone /\ cyc.last \in Pulls
                \/ ppc = "pull" /\ lastPolledScan' = -1]_vars
\* scan 1 has been fetched, and the next cycle, with scan 1 still the last
\* one, has fetched nothing
C23_Witness ==
    /\ ppc = "errchk" /\ cyc.last = "pressure"
    /\ Active
    /\ lastPolledScan = 1
    /\ cache.scanInfo.lastScan = 1

\* the just-entered flag of the acquisition state st
Fresh(st, mon, leak) == (st = MONITORING /\ mon) \/ (st = LEAKCEHCK /\ leak)
\* a start command goes through: the driver enters Monitoring or LeakCheck
Entry == w.fn \in StartFns /\ w.pc = "io" /\ w'.pc = "ret" /\ w'.ret = asynSuccess

\* C24, as the claim has it: lastPolledScan_ is -1 as soon as Monitoring or
\* LeakCheck is entered, and does not decrease while the state stays
C24_ResetOnEntry ==
    /\ [][Entry => lastPolledScan' = -1]_vars
    /\ [][(mainState \in {MONITORING, LEAKCEHCK} /\ mainState' = mainState)
             => lastPolledScan' >= lastPolledScan]_vars

\* C24, as the code has it: an entry sets the just-entered flag and leaves
\* lastPolledScan_ alone; the first cycle after it that finds the state
\* scanning puts lastPolledScan_ back to -1 before it compares, so the first
\* comparison of the episode is against -1; after that lastPolledScan_ does not
\* decrease while the state stays and no new entry is made
C24_ResetOnFirstCycle ==
    /\ [][Entry => /\ Fresh(mainState', startingMonitor', startingLeakcheck')
                   /\ lastPolledScan' = lastPolledScan]_vars
    /\ [][(/\ Fresh(mainState, startingMonitor, startingLeakcheck)
           /\ ~Fresh(mainState', startingMonitor', startingLeakcheck')
           /\ mainState' = mainState)
             => /\ ppc = "pull" /\ Active
                /\ lastPolledScan' = -1
                /\ (ppc' \in Pulls <=> cache.scanInfo.lastScan > -1)]_vars
    /\ [][(ppc = "pull" /\ ppc' \in Pulls /\ lastPolledScan' # -1)
             => ~Fresh(mainState, startingMonitor, startingLeakcheck)]_vars
    /\ [][(/\ mainState \in {MONITORING, LEAKCEHCK} /\ mainState' = mainState
           /\ ~Fresh(mainState, startingMonitor, startingLeakcheck))
             => lastPolledScan' >= lastPolledScan]_vars
\* a second episode: the leak check has been entered with scan 1 of the
\* monitoring before it polled, and its first scanning cycle compares with -1
C24_Witness ==
    /\ mainState = LEAKCEHCK /\ w.n = 2
    /\ ppc = "leak"
    /\ lastPolledScan = -1
    /\ ~startingLeakcheck
    /\ cache.scanData.scanNumber = 1

\* the pull decision of a cycle, made in the first scanning cycle of an episode
FirstTick ==
    /\ ppc = "pull" /\ ppc' # "pull"
    /\ Active
    /\ Fresh(mainState, startingMonitor, startingLeakcheck)
\* both arrays of the scan buffer are all zeroes
Blank(sd) == sd.scanValues = ZeroArr(0) /\ sd.amuValues = ZeroArr(Rat(0, 1))

\* C25, as the claim has it: the first scanning cycle after an entry into
\* Monitoring or LeakCheck zeroes the sample and axis arrays and publishes
\* them before it fetches a scan
C25_ClearedOnFirstTick ==
    [][FirstTick => (Blank(cache'.scanData) /\ cyc'.cleared)]_vars

\* C25, as the code has it: the first scanning cycle after an entry into
\* Monitoring zeroes the two arrays and publishes them before it fetches; no
\* other step of the poller's pull decision changes them, the leak check's
\* first cycle included; the flag that makes it happen is set by an entry
\* into Monitoring only and is cleared by the zeroing, so that it happens at
\* most once per entry and no scan is fetched before it
C25_MonitorClearedOnce ==
    /\ [][(FirstTick /\ mainState = MONITORING)
             => /\ Blank(cache'.scanData) /\ cyc'.cleared
                /\ ~startingMonitor']_vars
    /\ [][(ppc = "pull" /\ ppc' # "pull" /\ ~(FirstTick /\ mainState = MONITORING))
             => /\ cache' = cache /\ ~cyc'.cleared
                /\ startingMonitor' = startingMonitor]_vars
    /\ [][(startingMonitor' /\ ~startingMonitor)
             => (Entry /\ mainState' = MONITORING)]_vars
    /\ [][(ppc' = "io" /\ ppc # "io" /\ cyc'.last = "scan")
             => (~startingMonitor /\ mainState = MONITORING)]_vars
\* a second monitoring episode: the arrays, filled by the first, have been
\* zeroed in the cycle that is about to fetch the first scan of the second
C25_Witness ==
    /\ ppc = "scan"
    /\ cyc.cleared
    /\ w.n = 2
    /\ Blank(cache.scanData)
    /\ cache.scanData.scanSize > 0

\* the poller is between two cycles, or not in its loop
Between == ppc \in {"start", "wait", "lock", "done", "crashed"}

\* C26, as the claim has it: from its lock() after the wait to the end of the
\* cycle the poller has the mutex without a break, so that no write request
\* runs while a cycle is under way
C26_NoWriteInCycle == lockOwner = "writer" => Between

\* C26, as the code has it: inside a cycle the poller has the mutex everywhere
\* but in the sleep of the interruptAccept loop; it gives the mutex up only at
\* the top of the loop, before the wait, and in that loop, which it enters
\* only while interruptAccept is not set; a request of a client makes a step
\* inside a cycle only during that sleep
C26_LockHeldButForAccept ==
    /\ []((~Between /\ ppc # "acceptSleep") => lockOwner = "poller")
    /\ [][(lockOwner = "poller" /\ lockOwner' # "poller")
             => (ppc = "top" \/ (ppc = "accept" /\ ~interruptAccept))]_vars
    /\ [][(w' # w /\ ~Between) => ppc = "acceptSleep"]_vars
\* before iocInit is through, a stop command is inside its exchange between
\* the reads of a cycle and its callbacks
C26_Witness ==
    /\ ppc = "acceptSleep"
    /\ lockOwner = "writer" /\ w.pc = "io"
    /\ cyc.reads = Tier5 \o Tier10 \o Every
    /\ cyc.calls = 0

\* C27: an exchange that ends in a read timeout with bytes received goes on
\* to the status line and the payload like a success, and an exchange with
\* no bytes received is an error whatever writeRead's status was
C27_TimeoutWithBytes ==
    rw.made =>
        /\ rw.rsp.nread = 0 => (rw.status = asynError /\ rw.data = rw.buf)
        /\ (rw.rsp.status = asynTimeout /\ rw.rsp.nread > 0) =>
              /\ ~rw.rsp.marker => rw.status = asynError
              /\ (rw.rsp.marker /\ rw.rsp.code = 404) => rw.status = asynError
              /\ (rw.rsp.marker /\ rw.rsp.code = HTTP_OK /\ ~(rw.rsp.lbrace /\ rw.rsp.rbrace))
                    => rw.status = asynError
              /\ (/\ rw.rsp.marker /\ rw.rsp.code = HTTP_OK
                  /\ rw.rsp.lbrace /\ rw.rsp.rbrace /\ ~rw.rsp.swapped)
                    => (rw.status = asynSuccess /\ rw.data = rw.rsp.doc)
\* a timeout after a whole 200 response has come back as a success with the payload
C27_Witness ==
    /\ rw.made
    /\ rw.rsp.status = asynTimeout /\ rw.rsp.nread > 0
    /\ rw.buf = EmptyBuf
    /\ rw.status = asynSuccess /\ rw.data = rw.rsp.doc

\* C28: of a response received, the call returns an error and no payload
\* when "HTTP/1.1" is absent or the code is not 200, an error when the code is
\* 200 and a brace is missing, and otherwise the text from the first '{' to
\* the last '}', which lies inside the response
C28_PayloadBetweenBraces ==
    (rw.made /\ rw.rsp.nread > 0
        /\ rw.rsp.status \in {asynSuccess, asynTimeout, asynError}) =>
        IF ~rw.rsp.marker \/ rw.rsp.code # HTTP_OK
        THEN rw.status = asynError /\ rw.data \in {rw.buf, EmptyBuf}
        ELSE IF ~rw.rsp.lbrace \/ ~rw.rsp.rbrace
        THEN rw.status = asynError
        ELSE rw.status = asynSuccess /\ rw.data = rw.rsp.doc

\* C29: the device-status decoder writes no filament record at an index
\* outside 0..2, and a document with more than three filament entries ends the
\* whole decode with an error
C29_FilamentsBounded ==
    /\ [](DOMAIN cache.devStatus.filament = 0..(MaxFilaments - 1))
    /\ [][(ReadDone /\ cyc.last = "devStatus" /\ Len(data'.fil) > MaxFilaments)
             => (ppc' # "crashed" /\ cyc'.status = asynError)]_vars
\* a document with four filament entries has been turned down after the
\* third was stored
C29_Witness ==
    /\ cyc.last = "devStatus" /\ ppc # "io"
    /\ data = DevStatusDoc(MaxFilaments + 1)
    /\ cyc.status = asynError
    /\ cache.devStatus.filament[MaxFilaments - 1].id = MaxFilaments

\* the ion-source decode has come to its two enumerated strings
AtEnums(doc) ==
    /\ doc.ok
    /\ {"ionSource", "calIndex"} \subseteq doc.marks
    /\ FirstBad(ionSourceAs, doc) > Len(ionSourceAs)
\* one enumerated string of a decode that has run: a literal is stored as its
\* number, any other string ends the decode in an error and leaves the field
EnumExact(v, lit0, lit1, fld) ==
    v.t = "string" =>
        IF v.s = lit0 THEN cache'.sensIonSource[fld] = 0
        ELSE IF v.s = lit1 THEN cache'.sensIonSource[fld] = 1
        ELSE /\ ppc' # "crashed"
             /\ cyc'.status = asynError
             /\ cache'.sensIonSource[fld] = cache.sensIonSource[fld]

\* C30: the ion-source decoder stores "Lo"/"Hi" as 0/1 and
\* "Linearity"/"Sensitivity" as 0/1 by exact match; any other string makes the
\* decode return an error and leaves the field as it was
C30_EnumeratedStrings ==
    [][(ReadDone /\ cyc.last = "ionSource" /\ AtEnums(data'))
          => /\ EnumExact(Get(data', "emissionLevel"), "Lo", "Hi", "emiLevel")
             /\ (Get(data', "emissionLevel").t = "string"
                 /\ Get(data', "emissionLevel").s \in {"Lo", "Hi"})
                   => EnumExact(Get(data', "optimizationType"),
                                "Linearity", "Sensitivity", "optType")]_vars

\* the text the splice is to produce: the text before the first landmark less
\* its last byte, then the text from one byte before the second landmark on
Spliced(text) ==
    LET cutAt == strstr(text, "peakfind")
        cutTo == strstr(text, "filaments")
    IN SubSeq(text, 1, cutAt - 1)
       \o SubSeq(text, IF cutTo > 0 THEN cutTo ELSE 1, Len(text))

\* C31: with both landmarks in the text, wherever they are, the splice gives
\* the text before the first less its last byte followed by the text from one
\* byte before the second; with a landmark absent the device-status decode
\* returns an error and leaves the struct as it was
C31_SpliceOfAnyText ==
    rw.made =>
        IF strstr(rw.text, "peakfind") = Absent \/ strstr(rw.text, "filaments") = Absent
        THEN rw.status = "corrupted" /\ rw.ret = asynError /\ rw.val = rw.old
        ELSE rw.status = "spliced" /\ rw.out = Spliced(rw.text)

\* the five requests of a start command for a channel and a mode
FiveRequests(ch, mode) ==
    << "scanSetup/scanStop/set?Immediately",
       "scanSetup/channels/" \o ch \o "/set?channelMode=" \o mode \o "&enabled=True",
       "scanSetup/set?startChannel=" \o ch \o "&stopChannel=" \o ch,
       "scanSetup/scanCount/set?-1",
       "scanSetup/scanStart/set?1" >>
Expected(fn) ==
    IF fn = "startMonitor" THEN FiveRequests("3", "Sweep") ELSE FiveRequests("4", "Single")
\* the start command in progress sets the state or its just-entered flag
SetsState ==
    \/ mainState' # mainState
    \/ startingMonitor' # startingMonitor
    \/ startingLeakcheck' # startingLeakcheck
    \/ (w.pc = "io" /\ w'.pc = "ret" /\ w'.ret = asynSuccess)

\* C32: a start command that was not rejected issues stop-immediately, the
\* set-up of its channel (3 in Sweep mode for the monitor, 4 in Single mode for
\* the leak check), the choice of that channel as start and stop channel, the
\* scan count and the scan start, in this order; the state becomes Monitoring
\* or LeakCheck, with its just-entered flag, only after all five
C32_StartSequence ==
    /\ [](Starting => IsPrefix(w.sent, Expected(w.fn)))
    /\ []((Starting /\ w.pc = "ret" /\ w.ret = asynSuccess)
             => /\ w.sent = Expected(w.fn)
                /\ mainState = AfterStart(w.fn)
                /\ IF w.fn = "startMonitor" THEN startingMonitor ELSE startingLeakcheck)
    /\ [][(Starting /\ SetsState)
             => /\ w'.sent = Expected(w.fn)
                /\ mainState' = AfterStart(w.fn)
                /\ IF w.fn = "startMonitor" THEN startingMonitor' ELSE startingLeakcheck']_vars
\* a leak check has been started with its five requests
C32_Witness ==
    /\ Starting /\ w.fn = "startLeakcheck" /\ w.pc = "ret" /\ w.ret = asynSuccess
    /\ w.sent = FiveRequests("4", "Single")
    /\ mainState = LEAKCEHCK /\ startingLeakcheck

\* the poller decides to fetch the latest scan
FetchBegins == ppc = "pull" /\ ppc' \in {"leak", "scan"}
\* the fetch and its decode are over
FetchEnds == ReadDone /\ cyc.last \in {"leak", "scan"}

\* C33: within an episode a number of the last completed scan is fetched at
\* most once, whatever comes of the fetch: the fetch, failed or not, makes its
\* number the polled one, nothing but a fetch or the first scanning cycle of
\* an episode changes the polled number, and a cycle that is not the first of
\* an episode fetches only when the cached number is above the polled one
C33_OneFetchPerScan ==
    /\ [][FetchEnds => lastPolledScan' = cache.scanInfo.lastScan]_vars
    /\ [][(FetchBegins /\ ~Fresh(mainState, startingMonitor, startingLeakcheck))
             => (lastPolledScan' = lastPolledScan
                 /\ cache.scanInfo.lastScan > lastPolledScan)]_vars
    /\ [][(lastPolledScan' # lastPolledScan)
             => \/ FetchEnds
                \/ /\ ppc = "pull" /\ Active
                   /\ Fresh(mainState, startingMonitor, startingLeakcheck)]_vars
\* the fetch of scan 1 failed and left the buffer of scan 0, and the cycle
\* after it, with scan 1 still the last one, has fetched nothing
C33_Witness ==
    /\ ppc = "errchk" /\ cyc.last = "pressure"
    /\ mainState = MONITORING /\ cache.scanInfo.scanStatus = 1
    /\ lastPolledScan = 1 /\ cache.scanInfo.lastScan = 1
    /\ cache.scanData.scanNumber = 0

\* the poller is in one of its delays between device reads: the wait for the
\* event or the poll time, or the pause after a repeated I/O error
Delaying == ppc \in {"wait", "sleep1"}

\* C34: while the poll loop delays between device reads, in the idle wait or
\* in the one-second pause after two cycles with the same I/O error, it does
\* not hold the port's mutex
C34_DelaysUnlocked == Delaying => lockOwner # "poller"

\* a start command is between its first request and its return
MidStart == Starting /\ w.pc \in {"rq", "io", "ret"} /\ Len(w.sent) > 0
\* the places where the poller has not got the mutex
Outside == ppc \in {"start", "wait", "lock", "acceptSleep", "done", "crashed"}

\* C35: from the first exchange of a start command to its return the handler
\* has the mutex; the poller makes no exchange and no step of a cycle in
\* between, only the requests of the command are issued, and whenever the
\* poller has the mutex no command is under way, so that it finds the state
\* and the instrument either both before or both after the command
C35_StartIsAtomic ==
    /\ [](MidStart => /\ lockOwner = "writer" /\ Outside
                      /\ xchg \subseteq {"writer"}
                      /\ IsPrefix(w.sent, Expected(w.fn)))
    /\ [](lockOwner = "poller" => (w.pc = "idle" /\ "writer" \notin xchg))
    /\ [][MidStart => /\ cyc' = cyc /\ cache' = cache
                      /\ (ppc' = ppc \/ (ppc = "wait" /\ ppc' \in {"lock", "done"}))]_vars
\* a leak-check start has made three of its exchanges while the poller, back
\* from its wait, is held up at lock()
C35_Witness ==
    /\ w.fn = "startLeakcheck" /\ w.pc = "io" /\ w.step = 3
    /\ ppc = "lock" /\ lockOwner = "writer"
    /\ mainState = IDLE

\* what the pull blocks work on: the polled number, the just-entered flags,
\* the scan buffer and the leak-check value
PullState ==
    << lastPolledScan, startingMonitor, startingLeakcheck, cache.scanData, cache.leakChk >>

\* C36: a cycle that finds the state Idle or the cached scanning flag 0 issues
\* no request for the latest scan and leaves lastPolledScan_, the just-entered
\* flags, the scan buffer and the leak-check value as they are: the poller is
\* sent to a fetch only by the pull decision of a cycle with the state
\* Monitoring or LeakCheck and the flag 1, and no step of the poller other
\* than that decision and the fetch after it changes any of them
C36_NoPullWhenInactive ==
    /\ [][(ppc = "pull" /\ ppc' # "pull"
           /\ (mainState = IDLE \/ cache.scanInfo.scanStatus = 0))
             => (ppc' = "errchk" /\ PullState' = PullState)]_vars
    /\ [][(ppc' \in {"leak", "scan"} /\ ppc # ppc')
             => (ppc = "pull" /\ mainState # IDLE /\ cache.scanInfo.scanStatus = 1)]_vars
    /\ [][(ppc' = "io" /\ ppc # "io" /\ cyc'.last \in {"leak", "scan"})
             => ppc \in {"leak", "scan"}]_vars
    /\ [][(ppc' # ppc /\ PullState' # PullState)
             => \/ ppc = "pull" /\ mainState # IDLE /\ cache.scanInfo.scanStatus = 1
                \/ ppc = "io" /\ cyc.last \in {"leak", "scan"}]_vars
\* a cycle in Monitoring with the scanning flag 0, an episode's first scans
\* polled and the flag of a new start set, has gone past the pull blocks
C36_Witness ==
    /\ ppc = "errchk" /\ cyc.last = "pressure"
    /\ mainState = MONITORING /\ cache.scanInfo.scanStatus = 0
    /\ startingMonitor /\ lastPolledScan >= 0

\* C37: the acquisition state changes only in the last exchange of a stop, a
\* start-monitor or a start-leak-check command that goes through: a step of
\* the poller, a read request, a rejected or unknown command and any other
\* write command, a raw scan start included, leave it as it is
C37_StateChangedByCommands ==
    /\ [][(mainState' # mainState)
             => /\ w.fn \in StartFns \cup {"scanStop"}
                /\ w.pc = "io" /\ w'.pc = "ret" /\ w'.ret = asynSuccess
                /\ mainState' = (IF w.fn = "scanStop" THEN IDLE ELSE AfterStart(w.fn))
                /\ ppc' = ppc]_vars
    /\ []((w.pc = "ret" /\ (w.fn \notin StartFns \cup {"scanStop"} \/ w.step = 0))
             => mainState = w.pre.mainState)
\* a raw scan-start write has gone through and the state is still Idle
C37_Witness ==
    /\ w.fn = "scanStart" /\ w.pc = "ret" /\ w.ret = asynSuccess /\ w.step = 1
    /\ mainState = IDLE

\* C38: the leak-check decoder takes a scan document only when its array of
\* values has exactly one element, and the leak-check value is then that
\* element; with no element or with more than one it returns an error and
\* the value stays
C38_LeakCheckSingleValue ==
    [][(ReadDone /\ cyc.last = "leak" /\ data'.ok /\ Get(data', "values").t = "array"
        /\ \A i \in 1..Len(data'.vals) : data'.vals[i].t = "number")
          => IF Len(data'.vals) = 1
             THEN /\ cyc'.status = asynSuccess
                  /\ cache'.leakChk.leakChkValue = data'.vals[1].n
             ELSE /\ cyc'.status = asynError
                  /\ cache'.leakChk = cache.leakChk]_vars
\* the leak-check value 1 of a scan before has stayed after a scan with the
\* two values 2, 2 was turned down
C38_Witness ==
    /\ cyc.last = "leak" /\ ppc # "io"
    /\ data = ScanDoc(2, 2, 1)
    /\ cyc.status = asynError
    /\ cache.leakChk.leakChkValue = 1

====
